---------------------------- MODULE Spec2Model ----------------------------
(***************************************************************************)
(* Model of the control-sequence engine of libterminal (contour):          *)
(* src/terminal/Sequencer.cpp.  The Sequencer receives tokenized events    *)
(* from the byte-stream producer (print, execute, clear, collect, param,   *)
(* dispatch*, hook/put/unhook), assembles the current Sequence, resolves   *)
(* it to a function and either applies it on the Screen or, while          *)
(* synchronized output (DEC mode 2026) is on, appends it to the batch      *)
(* queue that the reset of the mode replays.                               *)
(*                                                                         *)
(* Characters are one-character strings; NUL ("") is the char 0.           *)
(* Every handler is an operator from a Sequencer state record              *)
(*   [sequence, batching, queue, hooked, screen]                           *)
(* to the state it leaves; the actions apply one handler each to the       *)
(* variables.  The field screen is the list of calls the handler made on   *)
(* the Screen, in call order.                                              *)
(***************************************************************************)
EXTENDS Integers, Sequences, FiniteSets

VARIABLES
    sequence_,          \* Sequencer::sequence_, the Sequence under assembly
    batching_,          \* Sequencer::batching_
    batchedSequences_,  \* Sequencer::batchedSequences_, the batch queue
    hookedParser_,      \* Sequencer::hookedParser_ (NoParser when null)
    screen_,            \* calls made on Sequencer::screen_ by the last entry point
    reports_,           \* what the last entry point reported, and to which sink
    messageParser_,     \* a MessageParser: state_, parsedKey_, parsedValue_, headers_, body_
    message_,           \* the Message the parser gave its finalizer (NoMessage before)
    feed,               \* the bytes passed to the MessageParser and those about to be
    parserExtension_,   \* MessageParserTest::parserExtension_: holds a parser or not
    instructionCounter_, \* Sequencer::instructionCounter_
    counted,            \* whether instructionCounter_ is followed (CounterSpec) or left at 0
    producer,           \* the event producer: its state and the bytes it still holds
    lastCall            \* the entry point called last, with its argument

vars == <<sequence_, batching_, batchedSequences_, hookedParser_, screen_,
          reports_, messageParser_, message_, feed, parserExtension_,
          instructionCounter_, counted, producer, lastCall>>

\* The value of instructionCounter_ up to which its entry points are followed.
MaxInstructions == 4

\* Largest number of entries the batch queue holds in the model.
MaxQueue == 4

NUL == ""

----------------------------------------------------------------------------
(* Sequence record (Sequencer.h)                                           *)

InitialSequence ==
    [category |-> "C0", leader |-> NUL, parameters |-> <<>>,
     intermediates |-> <<>>, finalChar |-> NUL, dataString |-> <<>>]

\* Sequence::MaxParameters
MaxParameters == 16

\* Sequence::clear
SequenceClear(seq) == InitialSequence

\* Sequence::parameterCount
parameterCount(seq) == Len(seq.parameters)

\* Sequence::param(i), i counted from 0: 0 when the group is absent
SeqParam(seq, i) ==
    IF i + 1 <= Len(seq.parameters) THEN seq.parameters[i + 1][1] ELSE 0

\* Sequence::param_or(i, d): d when the group is absent or holds 0
param_or(seq, i, d) ==
    IF SeqParam(seq, i) = 0 THEN d ELSE SeqParam(seq, i)

\* Sequence::containsParameter(v): some group's primary value is v
containsParameter(seq, v) ==
    \E i \in 1..Len(seq.parameters) : seq.parameters[i][1] = v

----------------------------------------------------------------------------
(* Function registry (Functions.h): (category, leader, intermediates,      *)
(* final char) to function identity; an OSC is selected by its code.       *)

NoFunction == "none"

functionDefinition(seq) ==
    CASE seq.category = "C0" /\ seq.finalChar \in {"BEL", "BS", "TAB", "LF", "VT", "FF", "CR"} ->
            seq.finalChar
      [] seq.category = "ESC" /\ seq.leader = NUL /\ seq.intermediates = <<>> /\ seq.finalChar = "7" ->
            "DECSC"
      [] seq.category = "ESC" /\ seq.leader = NUL /\ seq.intermediates = <<>> /\ seq.finalChar = "8" ->
            "DECRS"
      [] seq.category = "CSI" /\ seq.leader = "?" /\ seq.intermediates = <<>> /\ seq.finalChar = "h" ->
            "DECSM"
      [] seq.category = "CSI" /\ seq.leader = "?" /\ seq.intermediates = <<>> /\ seq.finalChar = "l" ->
            "DECRM"
      [] seq.category = "CSI" /\ seq.leader = NUL /\ seq.intermediates = <<>> /\ seq.finalChar = "H" ->
            "CUP"
      [] seq.category = "CSI" /\ seq.leader = NUL /\ seq.intermediates = <<>> /\ seq.finalChar = "A" ->
            "CUU"
      [] seq.category = "CSI" /\ seq.leader = NUL /\ seq.intermediates = <<>> /\ seq.finalChar = "B" ->
            "CUD"
      [] seq.category = "CSI" /\ seq.leader = NUL /\ seq.intermediates = <<>> /\ seq.finalChar = "C" ->
            "CUF"
      [] seq.category = "CSI" /\ seq.leader = NUL /\ seq.intermediates = <<>> /\ seq.finalChar = "D" ->
            "CUB"
      [] seq.category = "CSI" /\ seq.leader = NUL /\ seq.intermediates = <<>> /\ seq.finalChar = "E" ->
            "CNL"
      [] seq.category = "CSI" /\ seq.leader = NUL /\ seq.intermediates = <<>> /\ seq.finalChar = "F" ->
            "CPL"
      [] seq.category = "CSI" /\ seq.leader = NUL /\ seq.intermediates = <<>> /\ seq.finalChar = "G" ->
            "CHA"
      [] seq.category = "CSI" /\ seq.leader = NUL /\ seq.intermediates = <<>> /\ seq.finalChar = "d" ->
            "VPA"
      [] seq.category = "CSI" /\ seq.leader = NUL /\ seq.intermediates = <<>> /\ seq.finalChar = "0x60" ->
            "HPA"
      [] seq.category = "CSI" /\ seq.leader = NUL /\ seq.intermediates = <<>> /\ seq.finalChar = "a" ->
            "HPR"
      [] seq.category = "CSI" /\ seq.leader = NUL /\ seq.intermediates = <<>> /\ seq.finalChar = "f" ->
            "HVP"
      [] seq.category = "CSI" /\ seq.leader = NUL /\ seq.intermediates = <<>> /\ seq.finalChar = "n" ->
            "CPR"
      [] seq.category = "CSI" /\ seq.leader = NUL /\ seq.intermediates = <<>> /\ seq.finalChar = "c" ->
            "DA1"
      [] seq.category = "CSI" /\ seq.leader = NUL /\ seq.intermediates = <<>> /\ seq.finalChar = "K" ->
            "EL"
      [] seq.category = "CSI" /\ seq.leader = NUL /\ seq.intermediates = <<>> /\ seq.finalChar = "g" ->
            "TBC"
      [] seq.category = "CSI" /\ seq.leader = NUL /\ seq.intermediates = <<" ">> /\ seq.finalChar = "q" ->
            "DECSCUSR"
      [] seq.category = "CSI" /\ seq.leader = NUL /\ seq.intermediates = <<"$">> /\ seq.finalChar = "|" ->
            "DECSCPP"
      [] seq.category = "CSI" /\ seq.leader = NUL /\ seq.intermediates = <<"$">> /\ seq.finalChar = "w" ->
            "DECRQPSR"
      [] seq.category = "CSI" /\ seq.leader = NUL /\ seq.intermediates = <<>> /\ seq.finalChar = "m" ->
            "SGR"
      [] seq.category = "DCS" /\ seq.leader = NUL /\ seq.intermediates = <<>> /\ seq.finalChar = "q" ->
            "DECSIXEL"
      [] seq.category = "DCS" /\ seq.leader = NUL /\ seq.intermediates = <<"$">> /\ seq.finalChar = "q" ->
            "DECRQSS"
      [] seq.category = "DCS" /\ seq.leader = NUL /\ seq.intermediates = <<>> /\ seq.finalChar = "x" ->
            "GIUPLOAD"
      [] seq.category = "DCS" /\ seq.leader = NUL /\ seq.intermediates = <<>> /\ seq.finalChar = "r" ->
            "GIRENDER"
      [] seq.category = "DCS" /\ seq.leader = NUL /\ seq.intermediates = <<>> /\ seq.finalChar = "s" ->
            "GIONESHOT"
      [] seq.category = "DCS" /\ seq.leader = NUL /\ seq.intermediates = <<>> /\ seq.finalChar = "d" ->
            "GIDELETE"
      [] seq.category = "OSC" /\ SeqParam(seq, 0) = 2 ->
            "SETWINTITLE"
      [] OTHER -> NoFunction

\* isBatchable: the queries that answer the application are applied at once
isBatchable(f) == f \notin {"CPR", "DA1", "DECRQSS"}

----------------------------------------------------------------------------
(* Values of the batch queue and of the screen's call list                 *)

NoImage == <<>>

CharEntry(ch) == [kind |-> "char", ch |-> ch, seq |-> InitialSequence, rgba |-> NoImage]
SeqEntry(seq) == [kind |-> "Sequence", ch |-> NUL, seq |-> seq, rgba |-> NoImage]
ImageEntry(data) == [kind |-> "SixelImage", ch |-> NUL, seq |-> InitialSequence, rgba |-> data]

\* One call on the Screen: its name, its text arguments, its numeric arguments.
Call(op, s, n) == [op |-> op, s |-> s, n |-> n]

VerifyState == Call("verifyState", <<>>, <<>>)

\* One report: the sink it is written to (the logger_ callback or the
\* process's std::cerr) and its text.
Report(sink, text) == [sink |-> sink, text |-> text]

\* std::cerr << "Unknown VT sequence: ..." of Sequencer::handleSequence
UnknownSequenceReport == Report("std::cerr", "Unknown VT sequence")


----------------------------------------------------------------------------
(* impl:: helpers of the dispatcher                                        *)

\* impl::toDECMode: the DEC private mode of a parameter value
DECModeTable ==
    { <<1, "UseApplicationCursorKeys">>, <<2, "DesignateCharsetUSASCII">>,
      <<3, "Columns132">>, <<4, "SmoothScroll">>, <<5, "ReverseVideo">>,
      <<6, "Origin">>, <<7, "AutoWrap">>, <<9, "MouseProtocolX10">>,
      <<10, "ShowToolbar">>, <<12, "BlinkingCursor">>, <<19, "PrinterExtend">>,
      <<25, "VisibleCursor">>, <<30, "ShowScrollbar">>,
      <<40, "AllowColumns80to132">>, <<47, "UseAlternateScreen">>,
      <<69, "LeftRightMargin">>, <<80, "SixelScrolling">>,
      <<1000, "MouseProtocolNormalTracking">>,
      <<1001, "MouseProtocolHighlightTracking">>,
      <<1002, "MouseProtocolButtonTracking">>,
      <<1003, "MouseProtocolAnyEventTracking">>, <<1004, "FocusTracking">>,
      <<1005, "MouseExtended">>, <<1006, "MouseSGR">>,
      <<1007, "MouseAlternateScroll">>, <<1015, "MouseURXVT">>,
      <<1047, "UseAlternateScreen">>, <<1048, "SaveCursor">>,
      <<1049, "ExtendedAltScreen">>, <<2004, "BracketedPaste">>,
      <<2026, "BatchedRendering">> }

nullopt == "nullopt"

toDECMode(value) ==
    IF \E p \in DECModeTable : p[1] = value
    THEN (CHOOSE p \in DECModeTable : p[1] = value)[2]
    ELSE nullopt

BoolText(b) == IF b THEN "true" ELSE "false"

\* impl::setModeDEC: the screen call of one parameter group (none when unmapped)
setModeDEC(seq, modeIndex, enable) ==
    IF toDECMode(SeqParam(seq, modeIndex)) # nullopt
    THEN << Call("setMode", <<toDECMode(SeqParam(seq, modeIndex)), BoolText(enable)>>, <<>>) >>
    ELSE <<>>

RECURSIVE setModesDEC(_, _, _)
\* for_each(crispy::times(parameterCount), setModeDEC) from group i on
setModesDEC(seq, i, enable) ==
    IF i >= parameterCount(seq) THEN <<>>
    ELSE setModeDEC(seq, i, enable) \o setModesDEC(seq, i + 1, enable)

\* impl::CPR
CPR(seq) ==
    CASE SeqParam(seq, 0) = 5 -> << Call("deviceStatusReport", <<>>, <<>>) >>
      [] SeqParam(seq, 0) = 6 -> << Call("reportCursorPosition", <<>>, <<>>) >>
      [] OTHER -> <<>>

\* What a function of apply does: the calls it makes on the screen and the
\* ApplyResult it returns
Outcome(calls, result) == [calls |-> calls, result |-> result]

Ok(call) == Outcome(<<call>>, "Ok")

Invalid == Outcome(<<>>, "Invalid")

Unsupported == Outcome(<<>>, "Unsupported")

\* impl::DECRQPSR
DECRQPSR(seq) ==
    IF parameterCount(seq) # 1 THEN Invalid
    ELSE IF SeqParam(seq, 0) = 1 THEN Invalid
    ELSE IF SeqParam(seq, 0) = 2 THEN Ok(Call("requestTabStops", <<>>, <<>>))
    ELSE Invalid

\* impl::DECSCUSR
DECSCUSR(seq) ==
    IF parameterCount(seq) <= 1
    THEN CASE param_or(seq, 0, 1) \in {0, 1} -> Ok(Call("setCursorStyle", <<"Blink", "Block">>, <<>>))
           [] param_or(seq, 0, 1) = 2 -> Ok(Call("setCursorStyle", <<"Steady", "Block">>, <<>>))
           [] param_or(seq, 0, 1) = 3 -> Ok(Call("setCursorStyle", <<"Blink", "Underscore">>, <<>>))
           [] param_or(seq, 0, 1) = 4 -> Ok(Call("setCursorStyle", <<"Steady", "Underscore">>, <<>>))
           [] param_or(seq, 0, 1) = 5 -> Ok(Call("setCursorStyle", <<"Blink", "Bar">>, <<>>))
           [] param_or(seq, 0, 1) = 6 -> Ok(Call("setCursorStyle", <<"Steady", "Bar">>, <<>>))
           [] OTHER -> Invalid
    ELSE Invalid

\* Faulty variant of impl::EL: an unknown scope clears the line before it is
\* found invalid.
ELClearFirst(seq) ==
    CASE param_or(seq, 0, 0) = 0 -> Ok(Call("clearToEndOfLine", <<>>, <<>>))
      [] param_or(seq, 0, 0) = 1 -> Ok(Call("clearToBeginOfLine", <<>>, <<>>))
      [] param_or(seq, 0, 0) = 2 -> Ok(Call("clearLine", <<>>, <<>>))
      [] OTHER -> Outcome(<<Call("clearLine", <<>>, <<>>)>>, "Invalid")

\* impl::EL
EL(seq) ==
    CASE param_or(seq, 0, 0) = 0 -> Ok(Call("clearToEndOfLine", <<>>, <<>>))
      [] param_or(seq, 0, 0) = 1 -> Ok(Call("clearToBeginOfLine", <<>>, <<>>))
      [] param_or(seq, 0, 0) = 2 -> Ok(Call("clearLine", <<>>, <<>>))
      [] OTHER -> Invalid

\* impl::TBC
TBC(seq) ==
    IF parameterCount(seq) # 1
    THEN Ok(Call("horizontalTabClear", <<"AllTabs">>, <<>>))
    ELSE CASE SeqParam(seq, 0) = 0 -> Ok(Call("horizontalTabClear", <<"UnderCursor">>, <<>>))
           [] SeqParam(seq, 0) = 3 -> Ok(Call("horizontalTabClear", <<"AllTabs">>, <<>>))
           [] OTHER -> Invalid

\* The case DECSCPP of Sequencer::apply
DECSCPP(seq) ==
    IF param_or(seq, 0, 80) \in {80, 132}
    THEN Ok(Call("resizeColumns", <<"false">>, <<param_or(seq, 0, 80)>>))
    ELSE Invalid

\* Sequence::subParameterCount(i), i counted from 0: the values of the group
\* after its first
subParameterCount(seq, i) ==
    IF i + 1 <= Len(seq.parameters) THEN Len(seq.parameters[i + 1]) - 1 ELSE 0

\* Sequence::subparam(i, k), i and k counted from 0: 0 when the value is absent
subparam(seq, i, k) ==
    IF i + 1 <= Len(seq.parameters) /\ k + 2 <= Len(seq.parameters[i + 1])
    THEN seq.parameters[i + 1][k + 2]
    ELSE 0

\* One read of the parameters: param(group) when sub is -1, and
\* subparam(group, sub) otherwise
Read(group, sub) == [group |-> group, sub |-> sub]

\* v <= 255 for an unsigned 32-bit value
InByte(v) == v >= 0 /\ v <= 255

\* A Color: its alternative and the values it holds
Color(kind, values) == [kind |-> kind, values |-> values]

\* static_cast<IndexedColor>(value): IndexedColor is taken to be 8 bits
\* wide, the range the sub-parameter form tests the index against
ToIndexedColor(value) == value % 256

\* Color{}
UndefinedColor == Color("Undefined", <<>>)

\* What parseColor gives: the color, the index it leaves in *pi and the
\* reads it made of the parameters
Parsed(color, pi, reads) == [color |-> color, pi |-> pi, reads |-> reads]

\* impl::parseColor, *pi being pi on entry
parseColor(seq, pi) ==
    LET count == parameterCount(seq)
        subs == subParameterCount(seq, pi)
        sub(k) == subparam(seq, pi, k)
        subReads ==
            IF subs >= 1
            THEN CASE sub(0) = 2 /\ subs = 4 ->
                        <<Read(pi, 0), Read(pi, 1), Read(pi, 2), Read(pi, 3)>>
                   [] sub(0) = 5 -> <<Read(pi, 0), Read(pi, 1)>>
                   [] OTHER -> <<Read(pi, 0)>>
            ELSE <<>>
        j == pi + 1
        mode == SeqParam(seq, j)
    IN  IF subs >= 1 /\ sub(0) = 2 /\ subs = 4
           /\ InByte(sub(1)) /\ InByte(sub(2)) /\ InByte(sub(3))
        THEN Parsed(Color("RGBColor", <<sub(1), sub(2), sub(3)>>), pi + 1, subReads)
        ELSE IF subs >= 1 /\ sub(0) = 5 /\ InByte(sub(1))
        THEN Parsed(Color("IndexedColor", <<ToIndexedColor(sub(1))>>), pi + 1, subReads)
        ELSE IF j < count
        THEN IF mode = 5
             THEN IF j + 1 < count
                  THEN IF j + 1 <= 255
                       THEN Parsed(Color("IndexedColor",
                                         <<ToIndexedColor(SeqParam(seq, j + 1))>>), j + 1,
                                   subReads \o <<Read(j, 0 - 1), Read(j + 1, 0 - 1)>>)
                       ELSE Parsed(UndefinedColor, j + 2,
                                   subReads \o <<Read(j, 0 - 1), Read(j + 1, 0 - 1)>>)
                  ELSE Parsed(UndefinedColor, j + 1, subReads \o <<Read(j, 0 - 1)>>)
             ELSE IF mode = 2
             THEN IF j + 3 < count
                  THEN IF /\ InByte(SeqParam(seq, j + 1))
                          /\ InByte(SeqParam(seq, j + 2))
                          /\ InByte(SeqParam(seq, j + 3))
                       THEN Parsed(Color("RGBColor",
                                         <<SeqParam(seq, j + 1), SeqParam(seq, j + 2),
                                           SeqParam(seq, j + 3)>>),
                                   j + 3,
                                   subReads \o <<Read(j, 0 - 1), Read(j + 1, 0 - 1),
                                                 Read(j + 2, 0 - 1), Read(j + 3, 0 - 1)>>)
                       ELSE Parsed(UndefinedColor, j + 4,
                                   subReads \o <<Read(j, 0 - 1), Read(j + 1, 0 - 1),
                                                 Read(j + 2, 0 - 1), Read(j + 3, 0 - 1)>>)
                  ELSE Parsed(UndefinedColor, j + 1, subReads \o <<Read(j, 0 - 1)>>)
             ELSE Parsed(UndefinedColor, j + 1, subReads \o <<Read(j, 0 - 1)>>)
        ELSE Parsed(UndefinedColor, pi + 1, subReads)

\* The cases of impl::dispatchSGR that set a rendition
SgrRenditions ==
    { <<0, "Reset">>, <<1, "Bold">>, <<2, "Faint">>, <<3, "Italic">>,
      <<5, "Blinking">>, <<7, "Inverse">>, <<8, "Hidden">>, <<9, "CrossedOut">>,
      <<21, "DoublyUnderlined">>, <<22, "Normal">>, <<23, "NoItalic">>,
      <<24, "NoUnderline">>, <<25, "NoBlinking">>, <<27, "NoInverse">>,
      <<28, "NoHidden">>, <<29, "NoCrossedOut">>, <<51, "Framed">>,
      <<53, "Overline">>, <<54, "NoFramed">>, <<55, "NoOverline">> }

\* The underline styles of the case 4 of impl::dispatchSGR
UnderlineStyles ==
    <<"NoUnderline", "Underline", "DoublyUnderlined", "CurlyUnderlined",
      "DottedUnderline", "DashedUnderline">>

\* The colors of IndexedColor and BrightColor in the order of the cases
ColorNames ==
    <<"Black", "Red", "Green", "Yellow", "Blue", "Magenta", "Cyan", "White">>

\* One iteration of the loop of impl::dispatchSGR at index i: the calls it
\* makes, the index after it and the reads it made
SgrStep(seq, i) ==
    LET v == SeqParam(seq, i)
        step(calls, index, reads) ==
            [calls |-> calls, index |-> index, reads |-> <<Read(i, 0 - 1)>> \o reads]
        rendition(name) == Call("setGraphicsRendition", <<name>>, <<>>)
        colored(op, parsed) ==
            step(<<Call(op, <<parsed.color.kind>>, parsed.color.values)>>, parsed.pi,
                 parsed.reads)
    IN  CASE \E r \in SgrRenditions : r[1] = v ->
                step(<<rendition((CHOOSE r \in SgrRenditions : r[1] = v)[2])>>, i, <<>>)
          [] v = 4 ->
                IF subParameterCount(seq, i) = 1
                THEN step(<<rendition(IF subparam(seq, i, 0) \in 0..5
                                      THEN UnderlineStyles[subparam(seq, i, 0) + 1]
                                      ELSE "Underline")>>,
                          i, <<Read(i, 0)>>)
                ELSE step(<<rendition("Underline")>>, i, <<>>)
          [] v \in 30..37 ->
                step(<<Call("setForegroundColor", <<"IndexedColor", ColorNames[v - 29]>>, <<>>)>>, i, <<>>)
          [] v = 38 -> colored("setForegroundColor", parseColor(seq, i))
          [] v = 39 -> step(<<Call("setForegroundColor", <<"DefaultColor">>, <<>>)>>, i, <<>>)
          [] v \in 40..47 ->
                step(<<Call("setBackgroundColor", <<"IndexedColor", ColorNames[v - 39]>>, <<>>)>>, i, <<>>)
          [] v = 48 -> colored("setBackgroundColor", parseColor(seq, i))
          [] v = 49 -> step(<<Call("setBackgroundColor", <<"DefaultColor">>, <<>>)>>, i, <<>>)
          [] v = 58 -> colored("setUnderlineColor", parseColor(seq, i))
          [] v \in 90..97 ->
                step(<<Call("setForegroundColor", <<"BrightColor", ColorNames[v - 89]>>, <<>>)>>, i, <<>>)
          [] v \in 100..107 ->
                step(<<Call("setBackgroundColor", <<"BrightColor", ColorNames[v - 99]>>, <<>>)>>, i, <<>>)
          [] OTHER -> step(<<>>, i, <<>>)

\* The most iterations the loop of impl::dispatchSGR is followed for
MaxIterations == MaxParameters + 1

RECURSIVE SgrLoop(_, _, _)
\* The loop of impl::dispatchSGR from index i: the iterations it makes, each
\* with the index it starts at, its calls and its reads; left after
\* MaxIterations iterations
SgrLoop(seq, i, n) ==
    IF i >= parameterCount(seq) \/ n = 0 THEN <<>>
    ELSE LET it == SgrStep(seq, i)
         IN  <<[at |-> i, calls |-> it.calls, reads |-> it.reads]>>
                \o SgrLoop(seq, it.index + 1, n - 1)

RECURSIVE CallsOf(_)
\* The calls of the iterations, in order
CallsOf(iterations) ==
    IF iterations = <<>> THEN <<>>
    ELSE Head(iterations).calls \o CallsOf(Tail(iterations))

\* impl::dispatchSGR
dispatchSGR(seq) ==
    IF parameterCount(seq) = 0
    THEN Ok(Call("setGraphicsRendition", <<"Reset">>, <<>>))
    ELSE Outcome(CallsOf(SgrLoop(seq, 0, MaxIterations)), "Ok")

\* The switch of Sequencer::apply: the screen calls of a function on a
\* sequence and the result apply returns
ApplyOutcome(f, seq) ==
    CASE f = "BEL" -> Ok(Call("bell", <<>>, <<>>))
      [] f = "BS" -> Ok(Call("backspace", <<>>, <<>>))
      [] f = "TAB" -> Ok(Call("moveCursorToNextTab", <<>>, <<>>))
      [] f = "LF" -> Ok(Call("linefeed", <<>>, <<>>))
      [] f \in {"VT", "FF"} -> Ok(Call("index", <<>>, <<>>))
      [] f = "CR" -> Ok(Call("moveCursorToBeginOfLine", <<>>, <<>>))
      [] f = "DECRS" -> Ok(Call("restoreCursor", <<>>, <<>>))
      [] f = "DECSC" -> Ok(Call("saveCursor", <<>>, <<>>))
      [] f = "CHA" -> Ok(Call("moveCursorToColumn", <<>>, <<param_or(seq, 0, 1)>>))
      [] f = "CNL" -> Ok(Call("moveCursorToNextLine", <<>>, <<param_or(seq, 0, 1)>>))
      [] f = "CPL" -> Ok(Call("moveCursorToPrevLine", <<>>, <<param_or(seq, 0, 1)>>))
      [] f = "CPR" -> Outcome(CPR(seq), IF CPR(seq) # <<>> THEN "Ok" ELSE "Unsupported")
      [] f = "CUB" -> Ok(Call("moveCursorBackward", <<>>, <<param_or(seq, 0, 1)>>))
      [] f = "CUD" -> Ok(Call("moveCursorDown", <<>>, <<param_or(seq, 0, 1)>>))
      [] f = "CUF" -> Ok(Call("moveCursorForward", <<>>, <<param_or(seq, 0, 1)>>))
      [] f = "CUP" -> Ok(Call("moveCursorTo", <<>>, <<param_or(seq, 0, 1), param_or(seq, 1, 1)>>))
      [] f = "CUU" -> Ok(Call("moveCursorUp", <<>>, <<param_or(seq, 0, 1)>>))
      [] f = "DA1" -> Ok(Call("sendDeviceAttributes", <<>>, <<>>))
      [] f = "DECRM" -> Outcome(setModesDEC(seq, 0, FALSE), "Ok")
      [] f = "DECRQPSR" -> DECRQPSR(seq)
      [] f = "DECSCUSR" -> DECSCUSR(seq)
      [] f = "DECSCPP" -> DECSCPP(seq)
      [] f = "DECSM" -> Outcome(setModesDEC(seq, 0, TRUE), "Ok")
      [] f = "EL" -> EL(seq)
      [] f = "HPA" -> Ok(Call("moveCursorToColumn", <<>>, <<SeqParam(seq, 0)>>))
      [] f = "HPR" -> Ok(Call("moveCursorForward", <<>>, <<SeqParam(seq, 0)>>))
      [] f = "HVP" -> Ok(Call("moveCursorTo", <<>>, <<param_or(seq, 0, 1), param_or(seq, 1, 1)>>))
      [] f = "SGR" -> dispatchSGR(seq)
      [] f = "TBC" -> TBC(seq)
      [] f = "VPA" -> Ok(Call("moveCursorToLine", <<>>, <<param_or(seq, 0, 1)>>))
      [] f = "SETWINTITLE" -> Ok(Call("setWindowTitle", seq.intermediates, <<>>))
      [] OTHER -> Unsupported

\* The screen calls of a function on a sequence
FunctionCalls(f, seq) == ApplyOutcome(f, seq).calls

\* What Sequencer::apply returns: Ok when it queues the sequence
ApplyResult(st, f, seq) ==
    IF st.batching /\ isBatchable(f) THEN "Ok" ELSE ApplyOutcome(f, seq).result

----------------------------------------------------------------------------
(* Sequencer: printing, applying, batching                                 *)

\* Faulty variant of Sequencer::print: it writes to the screen whether or not
\* batching is on.
PrintUnbatched(st, ch) ==
    [st EXCEPT !.screen = Append(@, Call("writeText", <<ch>>, <<>>))]

\* Sequencer::print
PrintChar(st, ch) ==
    IF st.batching
    THEN [st EXCEPT !.queue = Append(@, CharEntry(ch))]
    ELSE [st EXCEPT !.counter = @ + 1,
                    !.screen = Append(@, Call("writeText", <<ch>>, <<>>))]

\* Faulty variant of Sequencer::apply: under batching it queues every
\* function, the queries included.
ApplyQueueAll(st, f, seq) ==
    IF st.batching
    THEN [st EXCEPT !.queue = Append(@, SeqEntry(seq))]
    ELSE [st EXCEPT !.screen = @ \o FunctionCalls(f, seq)]

\* Sequencer::apply
Apply(st, f, seq) ==
    IF st.batching /\ isBatchable(f)
    THEN [st EXCEPT !.queue = Append(@, SeqEntry(seq))]
    ELSE [st EXCEPT !.screen = @ \o FunctionCalls(f, seq)]

\* The body of the loop of Sequencer::flushBatchedSequences for one entry
FlushEntry(st, batchable) ==
    CASE batchable.kind = "char" -> PrintChar(st, batchable.ch)
      [] batchable.kind = "Sequence" ->
            IF functionDefinition(batchable.seq) # NoFunction
            THEN Apply(st, functionDefinition(batchable.seq), batchable.seq)
            ELSE st
      [] batchable.kind = "SixelImage" ->
            [st EXCEPT !.screen = Append(@, Call("sixelImage", batchable.rgba, <<>>))]

RECURSIVE FlushAllButLast(_, _, _)
\* Faulty variant of the flush loop: it stops one entry early.
FlushAllButLast(st, entries, i) ==
    IF i >= Len(entries) THEN st
    ELSE FlushAllButLast(FlushEntry(st, entries[i]), entries, i + 1)

RECURSIVE FlushFrom(_, _, _)
\* the loop of Sequencer::flushBatchedSequences over the entries i.. of entries
FlushFrom(st, entries, i) ==
    IF i > Len(entries) THEN st
    ELSE FlushFrom(FlushEntry(st, entries[i]), entries, i + 1)

\* Faulty variant of Sequencer::flushBatchedSequences: newest entry first.
FlushNewestFirst(st) ==
    LET q == st.queue
    IN  [FlushFrom(st, [i \in 1..Len(q) |-> q[Len(q) + 1 - i]], 1)
            EXCEPT !.queue = <<>>]

\* Faulty variant of Sequencer::flushBatchedSequences: the queue is not cleared.
FlushKeepQueue(st) == FlushFrom(st, st.queue, 1)

\* Sequencer::flushBatchedSequences
FlushBatchedSequences(st) ==
    [FlushFrom(st, st.queue, 1) EXCEPT !.queue = <<>>]

\* Faulty variant of Sequencer::handleSequence: on the reset of 2026 the
\* function is applied before the queue is flushed.
HandleSequenceApplyFirst(st) ==
    LET f == functionDefinition(st.sequence)
        done ==
            IF f = "DECSM" /\ containsParameter(st.sequence, 2026)
            THEN Apply([st EXCEPT !.batching = TRUE], f, st.sequence)
            ELSE IF f = "DECRM" /\ containsParameter(st.sequence, 2026)
            THEN FlushBatchedSequences(Apply([st EXCEPT !.batching = FALSE], f, st.sequence))
            ELSE IF st.batching /\ isBatchable(f)
            THEN [st EXCEPT !.queue = Append(@, SeqEntry(st.sequence))]
            ELSE Apply(st, f, st.sequence)
    IN  IF f # NoFunction
        THEN [done EXCEPT !.screen = Append(@, VerifyState)]
        ELSE [st EXCEPT !.reports = Append(@, UnknownSequenceReport)]

\* Sequencer::handleSequence
HandleSequence(entered) ==
    LET st == [entered EXCEPT !.counter = @ + 1]
        f == functionDefinition(st.sequence)
        done ==
            IF f = "DECSM" /\ containsParameter(st.sequence, 2026)
            THEN Apply([st EXCEPT !.batching = TRUE], f, st.sequence)
            ELSE IF f = "DECRM" /\ containsParameter(st.sequence, 2026)
            THEN Apply(FlushBatchedSequences([st EXCEPT !.batching = FALSE]), f, st.sequence)
            ELSE IF st.batching /\ isBatchable(f)
            THEN [st EXCEPT !.queue = Append(@, SeqEntry(st.sequence))]
            ELSE Apply(st, f, st.sequence)
    IN  IF f # NoFunction
        THEN [done EXCEPT !.screen = Append(@, VerifyState)]
        ELSE [st EXCEPT !.reports = Append(@, UnknownSequenceReport)]

----------------------------------------------------------------------------
(* Sequencer: the entry points the producer calls                          *)

\* The switch of Sequencer::executeControlFunction when batching is off
ControlCalls(c0) ==
    CASE c0 = "BEL" -> << Call("bell", <<>>, <<>>) >>
      [] c0 = "BS" -> << Call("backspace", <<>>, <<>>) >>
      [] c0 = "TAB" -> << Call("moveCursorToNextTab", <<>>, <<>>) >>
      [] c0 = "LF" -> << Call("linefeed", <<>>, <<>>) >>
      [] c0 \in {"VT", "FF"} -> << Call("index", <<>>, <<>>) >>
      [] c0 = "CR" -> << Call("moveCursorToBeginOfLine", <<>>, <<>>) >>
      [] c0 = "7" -> << Call("saveCursor", <<>>, <<>>) >>
      [] c0 = "8" -> << Call("restoreCursor", <<>>, <<>>) >>
      [] OTHER -> <<>>

\* Sequencer::executeControlFunction (Sequencer::execute forwards to it)
ExecuteControlFunction(st, c0) ==
    IF st.batching
    THEN HandleSequence([st EXCEPT !.sequence =
             [SequenceClear(@) EXCEPT !.category = "C0", !.finalChar = c0]])
    ELSE [st EXCEPT !.counter = @ + 1, !.screen = @ \o ControlCalls(c0)]

\* Sequencer::clear
Clear(st) == [st EXCEPT !.sequence = SequenceClear(@)]

\* Sequencer::collect
Collect(st, ch) == [st EXCEPT !.sequence.intermediates = Append(@, ch)]

\* Sequencer::collectLeader
CollectLeader(st, ch) == [st EXCEPT !.sequence.leader = ch]

Digits == <<"0", "1", "2", "3", "4", "5", "6", "7", "8", "9">>

isdigit(ch) == \E d \in 1..10 : Digits[d] = ch

DigitValue(ch) == (CHOOSE d \in 1..10 : Digits[d] = ch) - 1

\* A Sequence::Parameter is 32 bits wide and unsigned; TLC's integers stop at
\* 2^31 - 1, so a value is written as the two's complement integer with the
\* same 32 bits (2^32 - 1 is written -1) and computed in two 16-bit halves.
HalfWord == 65536

\* The 32-bit value with upper half hi and lower half lo (each in 0..65535)
Word32(hi, lo) ==
    IF hi >= HalfWord \div 2 THEN (hi - HalfWord) * HalfWord + lo
    ELSE hi * HalfWord + lo

\* value * 10 + digit in 32-bit unsigned arithmetic (it wraps modulo 2^32)
Accumulate(value, digit) ==
    LET lo == (value % HalfWord) * 10 + digit
        hi == ((value \div HalfWord) % HalfWord) * 10 + lo \div HalfWord
    IN  Word32(hi % HalfWord, lo % HalfWord)

\* parameters().back().back() = value
SetLastValue(parameters, value) ==
    [parameters EXCEPT ![Len(parameters)] =
        [@ EXCEPT ![Len(@)] = value]]

\* Faulty variant of Sequencer::param: a ';' always starts a new group.
ParamUnbounded(st, ch) ==
    LET ps == IF st.sequence.parameters = <<>> THEN << <<0>> >>
              ELSE st.sequence.parameters
        last == ps[Len(ps)]
        next ==
            CASE ch = ";" -> Append(ps, <<0>>)
              [] ch = ":" ->
                    IF Len(last) < MaxParameters
                    THEN [ps EXCEPT ![Len(ps)] = Append(@, 0)]
                    ELSE ps
              [] isdigit(ch) ->
                    SetLastValue(ps, Accumulate(last[Len(last)], DigitValue(ch)))
              [] OTHER -> ps
    IN  [st EXCEPT !.sequence.parameters = next]

\* Sequencer::param
Param(st, ch) ==
    LET ps == IF st.sequence.parameters = <<>> THEN << <<0>> >>
              ELSE st.sequence.parameters
        last == ps[Len(ps)]
        next ==
            CASE ch = ";" ->
                    IF Len(ps) < MaxParameters THEN Append(ps, <<0>>) ELSE ps
              [] ch = ":" ->
                    IF Len(last) < MaxParameters
                    THEN [ps EXCEPT ![Len(ps)] = Append(@, 0)]
                    ELSE ps
              [] isdigit(ch) ->
                    SetLastValue(ps, Accumulate(last[Len(last)], DigitValue(ch)))
              [] OTHER -> ps
    IN  [st EXCEPT !.sequence.parameters = next]

\* Sequencer::dispatchESC
DispatchESC(st, finalChar) ==
    HandleSequence([st EXCEPT !.sequence.category = "ESC",
                              !.sequence.finalChar = finalChar])

\* Sequencer::dispatchCSI
DispatchCSI(st, finalChar) ==
    HandleSequence([st EXCEPT !.sequence.category = "CSI",
                              !.sequence.finalChar = finalChar])

\* Sequencer::startOSC
StartOSC(st) == [st EXCEPT !.sequence.category = "OSC"]

\* Sequence::MaxOscLength
MaxOscLength == 512

\* unicode::to_utf8: the bytes of a character.  An ASCII character is its own
\* byte; the characters beyond ASCII are named by their code point and their
\* bytes by their hexadecimal value.
Utf8(ch) ==
    CASE ch = "U+00E9" -> <<"C3", "A9">>
      [] ch = "U+20AC" -> <<"E2", "82", "AC">>
      [] ch = "U+1F600" -> <<"F0", "9F", "98", "80">>
      [] OTHER -> <<ch>>

\* the count unicode::to_utf8 returns
Utf8Count(ch) == Len(Utf8(ch))

\* Faulty variant of Sequencer::putOSC: the bound is checked byte by byte, so
\* the last character may be stored in part.
PutOSCByBytes(st, ch) ==
    LET room == MaxOscLength - 1 - Len(st.sequence.intermediates)
        kept == IF Utf8Count(ch) <= room THEN Utf8Count(ch)
                ELSE IF room > 0 THEN room ELSE 0
    IN  [st EXCEPT !.sequence.intermediates = @ \o SubSeq(Utf8(ch), 1, kept)]

\* Sequencer::putOSC
PutOSC(st, ch) ==
    IF Len(st.sequence.intermediates) + Utf8Count(ch) < MaxOscLength
    THEN [st EXCEPT !.sequence.intermediates = @ \o Utf8(ch)]
    ELSE st

\* The character codes of the bytes that may start an OSC payload in the model
CharCode(ch) ==
    CASE ch = "L" -> 76
      [] ch = "t" -> 116
      [] ch = "x" -> 120
      [] ch = "?" -> 63

RECURSIVE DigitRun(_, _)
\* the index after the leading digits of data, from index i (counted from 0)
DigitRun(data, i) ==
    IF i < Len(data) /\ isdigit(data[i + 1]) THEN DigitRun(data, i + 1) ELSE i

\* INT_MAX of the int that parseOSC accumulates the code in
IntMax == 2147483647

\* The character code of '0': code * 10 + byte is computed before - '0'
ZeroCode == 48

RECURSIVE DecimalValue(_, _)
\* code = code * 10 + digit over the first n bytes of data, as a build
\* computes it in which int arithmetic wraps
DecimalValue(data, n) ==
    IF n = 0 THEN 0
    ELSE Accumulate(DecimalValue(data, n - 1), DigitValue(data[n]))

RECURSIVE DecimalOverflows(_, _)
\* code * 10 + digit leaves the range of int within the first n bytes of data
DecimalOverflows(data, n) ==
    /\ n > 0
    /\ \/ DecimalOverflows(data, n - 1)
       \/ DecimalValue(data, n - 1) > (IntMax - ZeroCode - DigitValue(data[n])) \div 10

\* parseOSC: the OSC code and the offset of the first payload byte
parseOSC(data) ==
    LET n == DigitRun(data, 0)
        single == n = 0 /\ data # <<>> /\ data[1] # ";"
        code == IF single THEN 0 - CharCode(data[1]) ELSE DecimalValue(data, n)
        i == IF single THEN 1 ELSE n
    IN  IF i < Len(data) /\ data[i + 1] = ";" THEN <<code, i + 1>> ELSE <<code, i>>

\* What parseOSC may return: signed overflow of the code is undefined, and
\* the code is then the wrapped value or any other int (0 and INT_MAX stand
\* for the others)
parseOSCOutcomes(data) ==
    LET parsed == parseOSC(data)
    IN  IF DecimalOverflows(data, DigitRun(data, 0))
        THEN { <<code, parsed[2]>> : code \in {parsed[1], 0, IntMax} }
        ELSE { parsed }

\* Sequencer::dispatchOSC up to the call of handleSequence: the code becomes
\* the parameter and the payload loses the code and its separator
PrepareOSC(st, parsed) ==
    [st EXCEPT !.sequence.parameters = Append(@, <<parsed[1]>>),
               !.sequence.intermediates = SubSeq(@, parsed[2] + 1, Len(@))]

\* Faulty variant of Sequencer::dispatchOSC: without the final clear().
DispatchOSCNoClear(st, parsed) == HandleSequence(PrepareOSC(st, parsed))

\* Sequencer::dispatchOSC, parseOSC having returned parsed
DispatchOSCWith(st, parsed) ==
    [HandleSequence(PrepareOSC(st, parsed)) EXCEPT !.sequence = SequenceClear(@)]

\* Sequencer::dispatchOSC
DispatchOSC(st) == DispatchOSCWith(st, parseOSC(st.sequence.intermediates))

----------------------------------------------------------------------------
(* MessageParser (MessageParser.h): headers "key=value" separated by ',',  *)
(* then ';' and the body                                                   *)

\* Faulty variant of MessageParser::MaxKeyLength: one byte more.
MaxKeyLengthOffByOne == 64 + 1

\* MessageParser::MaxKeyLength
MaxKeyLength == 64

\* MessageParser::MaxValueLength
MaxValueLength == 512

\* MessageParser::MaxParamCount
MaxParamCount == 32

\* MessageParser::MaxBodyLength, 8 * 1024 * 1024
MaxBodyLength == 8 * 1024 * 1024

\* The base64 alphabet, in the order of the values 0 to 63
Base64Alphabet ==
    << "A", "B", "C", "D", "E", "F", "G", "H", "I", "J", "K", "L", "M",
       "N", "O", "P", "Q", "R", "S", "T", "U", "V", "W", "X", "Y", "Z",
       "a", "b", "c", "d", "e", "f", "g", "h", "i", "j", "k", "l", "m",
       "n", "o", "p", "q", "r", "s", "t", "u", "v", "w", "x", "y", "z",
       "0", "1", "2", "3", "4", "5", "6", "7", "8", "9", "+", "/" >>

\* The place of a character in the base64 alphabet, -1 when it has none
Base64Value(ch) ==
    IF \E i \in 1..64 : Base64Alphabet[i] = ch
    THEN (CHOOSE i \in 1..64 : Base64Alphabet[i] = ch) - 1
    ELSE 0 - 1

\* The bytes 0 to 255 as the model writes them: a printable ASCII character
\* as itself (backslash and backquote apart), any other byte by its value
Bytes ==
    << "0x00", "0x01", "0x02", "0x03", "0x04", "0x05", "0x06", "0x07",
       "0x08", "0x09", "0x0a", "0x0b", "0x0c", "0x0d", "0x0e", "0x0f",
       "0x10", "0x11", "0x12", "0x13", "0x14", "0x15", "0x16", "0x17",
       "0x18", "0x19", "0x1a", "0x1b", "0x1c", "0x1d", "0x1e", "0x1f", " ",
       "!", "\"", "#", "$", "%", "&", "'", "(", ")", "*", "+", ",", "-",
       ".", "/", "0", "1", "2", "3", "4", "5", "6", "7", "8", "9", ":",
       ";", "<", "=", ">", "?", "@", "A", "B", "C", "D", "E", "F", "G",
       "H", "I", "J", "K", "L", "M", "N", "O", "P", "Q", "R", "S", "T",
       "U", "V", "W", "X", "Y", "Z", "[", "0x5c", "]", "^", "_", "0x60", "a",
       "b", "c", "d", "e", "f", "g", "h", "i", "j", "k", "l", "m", "n",
       "o", "p", "q", "r", "s", "t", "u", "v", "w", "x", "y", "z", "{",
       "|", "}", "~", "0x7f", "0x80", "0x81", "0x82", "0x83", "0x84",
       "0x85", "0x86", "0x87", "0x88", "0x89", "0x8a", "0x8b", "0x8c",
       "0x8d", "0x8e", "0x8f", "0x90", "0x91", "0x92", "0x93", "0x94",
       "0x95", "0x96", "0x97", "0x98", "0x99", "0x9a", "0x9b", "0x9c",
       "0x9d", "0x9e", "0x9f", "0xa0", "0xa1", "0xa2", "0xa3", "0xa4",
       "0xa5", "0xa6", "0xa7", "0xa8", "0xa9", "0xaa", "0xab", "0xac",
       "0xad", "0xae", "0xaf", "0xb0", "0xb1", "0xb2", "0xb3", "0xb4",
       "0xb5", "0xb6", "0xb7", "0xb8", "0xb9", "0xba", "0xbb", "0xbc",
       "0xbd", "0xbe", "0xbf", "0xc0", "0xc1", "0xc2", "0xc3", "0xc4",
       "0xc5", "0xc6", "0xc7", "0xc8", "0xc9", "0xca", "0xcb", "0xcc",
       "0xcd", "0xce", "0xcf", "0xd0", "0xd1", "0xd2", "0xd3", "0xd4",
       "0xd5", "0xd6", "0xd7", "0xd8", "0xd9", "0xda", "0xdb", "0xdc",
       "0xdd", "0xde", "0xdf", "0xe0", "0xe1", "0xe2", "0xe3", "0xe4",
       "0xe5", "0xe6", "0xe7", "0xe8", "0xe9", "0xea", "0xeb", "0xec",
       "0xed", "0xee", "0xef", "0xf0", "0xf1", "0xf2", "0xf3", "0xf4",
       "0xf5", "0xf6", "0xf7", "0xf8", "0xf9", "0xfa", "0xfb", "0xfc",
       "0xfd", "0xfe", "0xff" >>

\* The character of a byte value
ByteChar(n) == Bytes[n + 1]

\* One group of four base64 characters: three bytes, or two or one when the
\* group ends in padding
Base64Group(g) ==
    LET pad == IF g[3] = "=" /\ g[4] = "=" THEN 2 ELSE IF g[4] = "=" THEN 1 ELSE 0
        v(i) == IF i > 4 - pad THEN 0 ELSE Base64Value(g[i])
        n == ((v(1) * 64 + v(2)) * 64 + v(3)) * 64 + v(4)
    IN  SubSeq(<<ByteChar(n \div 65536), ByteChar((n \div 256) % 256), ByteChar(n % 256)>>,
               1, 3 - pad)

\* data is well-formed base64: groups of four characters of the alphabet,
\* padding only at the end of the last group
Base64Valid(data) ==
    /\ Len(data) % 4 = 0
    /\ \A i \in 1..Len(data) :
          \/ Base64Value(data[i]) >= 0
          \/ /\ data[i] = "="
             /\ i > Len(data) - 2
             /\ \A j \in i..Len(data) : data[j] = "="

RECURSIVE Base64Decode(_)
\* crispy::base64::decode of well-formed data
Base64Decode(data) ==
    IF data = <<>> THEN <<>>
    ELSE Base64Group(SubSeq(data, 1, 4)) \o Base64Decode(SubSeq(data, 5, Len(data)))

\* The value of a byte as the model writes it
ByteValue(ch) == (CHOOSE i \in 1..256 : Bytes[i] = ch) - 1

RECURSIVE Base64Encode(_)
\* crispy::base64::encode: three bytes give four characters, and the last one
\* or two bytes give two or three characters and padding
Base64Encode(bytes) ==
    LET n == Len(bytes)
        b(i) == IF i <= n THEN ByteValue(bytes[i]) ELSE 0
        c1 == Base64Alphabet[(b(1) \div 4) + 1]
        c2 == Base64Alphabet[((b(1) % 4) * 16 + (b(2) \div 16)) + 1]
        c3 == Base64Alphabet[((b(2) % 16) * 4 + (b(3) \div 64)) + 1]
        c4 == Base64Alphabet[(b(3) % 64) + 1]
    IN  IF n = 0 THEN <<>>
        ELSE IF n = 1 THEN <<c1, c2, "=", "=">>
        ELSE IF n = 2 THEN <<c1, c2, c3, "=">>
        ELSE <<c1, c2, c3, c4>> \o Base64Encode(SubSeq(bytes, 4, n))

\* Faulty variant of the stored bytes: what does not decode keeps its '!'.
StoredKeepPrefix(bytes) ==
    IF bytes # <<>> /\ bytes[1] = "!" /\ Base64Valid(Tail(bytes))
    THEN Base64Decode(Tail(bytes))
    ELSE bytes

\* What is stored for collected bytes: after a leading '!' the base64
\* decoding of the rest, or the rest as it is when it does not decode
Stored(bytes) ==
    IF bytes # <<>> /\ bytes[1] = "!"
    THEN IF Base64Valid(Tail(bytes)) THEN Base64Decode(Tail(bytes)) ELSE Tail(bytes)
    ELSE bytes

Header(key, value) == [key |-> key, value |-> value]

HasKey(headers, key) == \E i \in 1..Len(headers) : headers[i].key = key

\* Faulty variant of headers_[key] = value: the first declaration stays.
HeaderInsertOnly(headers, key, value) ==
    IF HasKey(headers, key) THEN headers ELSE Append(headers, Header(key, value))

\* headers_[key] = value on the HeaderMap: a key already present gets the new value
HeaderPut(headers, key, value) ==
    IF HasKey(headers, key)
    THEN [i \in 1..Len(headers) |->
            IF headers[i].key = key THEN Header(key, value) ELSE headers[i]]
    ELSE Append(headers, Header(key, value))

\* MessageParser as constructed, and after start()
NewMessageParser ==
    [state |-> "ParamKey", parsedKey |-> <<>>, parsedValue |-> <<>>,
     headers |-> <<>>, body |-> <<>>]

\* Faulty variant of MessageParser::flushHeader: the pending header is
\* committed even when its key is empty.
FlushHeaderAnyKey(p) ==
    [p EXCEPT !.headers =
                IF Len(p.headers) < MaxParamCount \/ HasKey(p.headers, p.parsedKey)
                THEN HeaderPut(@, p.parsedKey, Stored(p.parsedValue))
                ELSE @,
              !.parsedKey = <<>>,
              !.parsedValue = <<>>]

\* MessageParser::flushHeader: the pending header is committed if its key is
\* not empty and the map has room for it
FlushHeader(p) ==
    [p EXCEPT !.headers =
                IF p.parsedKey # <<>>
                   /\ (Len(p.headers) < MaxParamCount \/ HasKey(p.headers, p.parsedKey))
                THEN HeaderPut(@, p.parsedKey, Stored(p.parsedValue))
                ELSE @,
              !.parsedKey = <<>>,
              !.parsedValue = <<>>]

\* Faulty variant of MessageParser::pass: a ';' in the body starts the
\* headers again.
PassSemicolonAgain(p, ch) ==
    CASE p.state = "ParamKey" ->
            CASE ch = "=" -> [p EXCEPT !.state = "ParamValue"]
              [] ch = "," -> FlushHeader(p)
              [] ch = ";" -> [FlushHeader(p) EXCEPT !.state = "BodyStart"]
              [] OTHER ->
                    IF Len(p.parsedKey) < MaxKeyLength
                    THEN [p EXCEPT !.parsedKey = Append(@, ch)]
                    ELSE p
      [] p.state = "ParamValue" ->
            CASE ch = "," -> [FlushHeader(p) EXCEPT !.state = "ParamKey"]
              [] ch = ";" -> [FlushHeader(p) EXCEPT !.state = "BodyStart"]
              [] OTHER ->
                    IF Len(p.parsedValue) < MaxValueLength
                    THEN [p EXCEPT !.parsedValue = Append(@, ch)]
                    ELSE p
      [] p.state = "BodyStart" -> [p EXCEPT !.state = "Body", !.body = Append(@, ch)]
      [] p.state = "Body" ->
            IF ch = ";" THEN [p EXCEPT !.state = "ParamKey"]
            ELSE IF Len(p.body) < MaxBodyLength
            THEN [p EXCEPT !.body = Append(@, ch)]
            ELSE p

\* MessageParser::pass
Pass(p, ch) ==
    CASE p.state = "ParamKey" ->
            CASE ch = "=" -> [p EXCEPT !.state = "ParamValue"]
              [] ch = "," -> FlushHeader(p)
              [] ch = ";" -> [FlushHeader(p) EXCEPT !.state = "BodyStart"]
              [] OTHER ->
                    IF Len(p.parsedKey) < MaxKeyLength
                    THEN [p EXCEPT !.parsedKey = Append(@, ch)]
                    ELSE p
      [] p.state = "ParamValue" ->
            CASE ch = "," -> [FlushHeader(p) EXCEPT !.state = "ParamKey"]
              [] ch = ";" -> [FlushHeader(p) EXCEPT !.state = "BodyStart"]
              [] OTHER ->
                    IF Len(p.parsedValue) < MaxValueLength
                    THEN [p EXCEPT !.parsedValue = Append(@, ch)]
                    ELSE p
      [] p.state = "BodyStart" -> [p EXCEPT !.state = "Body", !.body = Append(@, ch)]
      [] p.state = "Body" ->
            IF Len(p.body) < MaxBodyLength
            THEN [p EXCEPT !.body = Append(@, ch)]
            ELSE p

NoMessage == [headers |-> <<>>, body |-> <<>>, given |-> FALSE]

\* Faulty variant of the reset of MessageParser::finalize: the parser stays
\* as the message left it.
ResetNothing(p) == p

\* MessageParser::finalize: the parser after the Message is handed over, its
\* buffers reset
Reset(p) == NewMessageParser

\* Faulty variant of MessageParser::finalize: the body is handed over as
\* it was collected.
FinalizedBodyVerbatim(p) ==
    [headers |-> FlushHeader(p).headers, body |-> p.body, given |-> TRUE]

\* MessageParser::finalize: the Message handed to the finalizer
Finalized(p) ==
    [headers |-> FlushHeader(p).headers, body |-> Stored(p.body), given |-> TRUE]

----------------------------------------------------------------------------
(* Sequencer: DCS hooks and their sub-parsers                              *)

\* The null hookedParser_. A sub-parser is its kind, the characters passed to
\* it in order, and the number of calls of its start()
NoParser == [kind |-> "null", data |-> <<>>, starts |-> 0]

\* Sequencer::hookSixel: a SixelParser over a fresh SixelImageBuilder
hookSixel(seq) == [kind |-> "SixelParser", data |-> <<>>, starts |-> 0]

\* Sequencer::hookDECRQSS: a SimpleStringCollector
hookDECRQSS(seq) == [kind |-> "SimpleStringCollector", data |-> <<>>, starts |-> 0]

\* The build has the image protocol: the code under #if defined(GOOD_IMAGE_PROTOCOL)
GOOD_IMAGE_PROTOCOL == TRUE

\* Sequencer::hookGoodImageUpload: a MessageParser; data holds the bytes
\* passed to it
hookGoodImageUpload(seq) == [kind |-> "GoodImageUpload", data |-> <<>>, starts |-> 0]

\* Sequencer::hookGoodImageRender: a MessageParser
hookGoodImageRender(seq) == [kind |-> "GoodImageRender", data |-> <<>>, starts |-> 0]

\* Sequencer::hookGoodImageRelease: a MessageParser
hookGoodImageRelease(seq) == [kind |-> "GoodImageRelease", data |-> <<>>, starts |-> 0]

\* Sequencer::hookGoodImageOneshot: a MessageParser
hookGoodImageOneshot(seq) == [kind |-> "GoodImageOneshot", data |-> <<>>, starts |-> 0]

\* ParserExtension::start of the hooked sub-parser
ParserStart(parser) == [parser EXCEPT !.starts = @ + 1]

\* The switch of Sequencer::hook: the sub-parser of the function, or the
\* hookedParser_ there was for a function with no case
HookedFor(st, seq) ==
    LET f == functionDefinition(seq)
    IN  CASE f = "DECSIXEL" -> hookSixel(seq)
          [] f = "DECRQSS" -> hookDECRQSS(seq)
          [] f = "GIUPLOAD" /\ GOOD_IMAGE_PROTOCOL -> hookGoodImageUpload(seq)
          [] f = "GIRENDER" /\ GOOD_IMAGE_PROTOCOL -> hookGoodImageRender(seq)
          [] f = "GIDELETE" /\ GOOD_IMAGE_PROTOCOL -> hookGoodImageRelease(seq)
          [] f = "GIONESHOT" /\ GOOD_IMAGE_PROTOCOL -> hookGoodImageOneshot(seq)
          [] OTHER -> st.hooked

\* Faulty variant of Sequencer::hook: the sub-parser is not started.
HookNoStart(st, finalChar) ==
    LET seq == [st.sequence EXCEPT !.category = "DCS", !.finalChar = finalChar]
    IN  [st EXCEPT !.sequence = seq, !.hooked = HookedFor(st, seq)]

\* Faulty variant of Sequencer::hook: the instruction counter starts again
\* at the hook.
HookRestartsCounter(st, finalChar) ==
    LET seq == [st.sequence EXCEPT !.category = "DCS", !.finalChar = finalChar]
    IN  [st EXCEPT !.counter = 0, !.sequence = seq, !.hooked = HookedFor(st, seq)]

\* Sequencer::hook
Hook(st, finalChar) ==
    LET seq == [st.sequence EXCEPT !.category = "DCS", !.finalChar = finalChar]
        parser == HookedFor(st, seq)
    IN  IF functionDefinition(seq) # NoFunction /\ parser # NoParser
        THEN [st EXCEPT !.counter = @ + 1, !.sequence = seq,
                        !.hooked = ParserStart(parser)]
        ELSE [st EXCEPT !.counter = @ + 1, !.sequence = seq, !.hooked = parser]

\* ParserExtension::pass of the hooked sub-parser
ParserPass(parser, ch) == [parser EXCEPT !.data = Append(@, ch)]

\* Faulty variant of Sequencer::put: without the null check.
PutUnchecked(st, ch) == [st EXCEPT !.hooked = ParserPass(@, ch)]

\* Sequencer::put
Put(st, ch) ==
    IF st.hooked # NoParser
    THEN [st EXCEPT !.hooked = ParserPass(@, ch)]
    ELSE st

\* Faulty variant of the finalizer of hookSixel: the image goes to the
\* screen whether batching is on or off.
SixelFinalizerUnbatched(st, data) ==
    [st EXCEPT !.screen = Append(@, Call("sixelImage", data, <<>>))]

\* The finalizer Sequencer::hookSixel gives the SixelParser
SixelFinalizer(st, data) ==
    IF st.batching
    THEN [st EXCEPT !.queue = Append(@, ImageEntry(data))]
    ELSE [st EXCEPT !.screen = Append(@, Call("sixelImage", data, <<>>))]

\* The mappings of the finalizer Sequencer::hookDECRQSS gives the collector
StatusStringTable ==
    { << <<"m">>, "SGR" >>, << <<"\"", "p">>, "DECSCL" >>,
      << <<" ", "q">>, "DECSCUSR" >>, << <<"\"", "q">>, "DECSCA" >>,
      << <<"r">>, "DECSTBM" >>, << <<"s">>, "DECSLRM" >>,
      << <<"t">>, "DECSLPP" >>, << <<"$", "|">>, "DECSCPP" >>,
      << <<"*", "|">>, "DECSNLS" >> }

\* The finalizer Sequencer::hookDECRQSS gives the SimpleStringCollector
StatusStringFinalizer(st, data) ==
    IF \E m \in StatusStringTable : m[1] = data
    THEN [st EXCEPT !.screen = Append(@,
            Call("requestStatusString",
                 <<(CHOOSE m \in StatusStringTable : m[1] = data)[2]>>, <<>>))]
    ELSE st

RECURSIVE PassAll(_, _)
\* MessageParser::parseFragment: the bytes passed one after the other
PassAll(p, bytes) ==
    IF bytes = <<>> THEN p ELSE PassAll(Pass(p, Head(bytes)), Tail(bytes))

\* The Message a MessageParser gives its finalizer for the bytes passed
ParseMessage(bytes) == Finalized(PassAll(NewMessageParser, bytes))

\* Message::header: the value of the key in a sequence of one, or the empty
\* sequence for the null pointer
MessageHeader(m, key) ==
    IF HasKey(m.headers, key)
    THEN <<m.headers[CHOOSE i \in 1..Len(m.headers) : m.headers[i].key = key].value>>
    ELSE <<>>

NullOpt == "nullopt"

\* toImageFormat, of the result of Message::header
toImageFormat(value) ==
    IF value = <<>> THEN "RGB"
    ELSE IF Len(value[1]) = 1
    THEN CASE value[1][1] = "1" -> "RGB"
           [] value[1][1] = "2" -> "RGBA"
           [] value[1][1] = "3" -> "PNG"
           [] OTHER -> NullOpt
    ELSE NullOpt

\* toNumber, of the result of Message::header (the numbers of the payloads
\* sent here stay within the range of int)
toNumber(value, default) ==
    IF value = <<>> THEN default
    ELSE IF \A i \in 1..Len(value[1]) : isdigit(value[1][i])
    THEN DecimalValue(value[1], Len(value[1]))
    ELSE default

\* toImageAlignmentPolicy, of the result of Message::header
toImageAlignmentPolicy(value, default) ==
    IF value = <<>> THEN default
    ELSE IF Len(value[1]) # 1 THEN NullOpt
    ELSE CASE value[1][1] = "1" -> "TopStart"
           [] value[1][1] = "2" -> "TopCenter"
           [] value[1][1] = "3" -> "TopEnd"
           [] value[1][1] = "4" -> "MiddleStart"
           [] value[1][1] = "5" -> "MiddleCenter"
           [] value[1][1] = "6" -> "MiddleEnd"
           [] value[1][1] = "7" -> "BottomStart"
           [] value[1][1] = "8" -> "BottomCenter"
           [] value[1][1] = "9" -> "BottomEnd"
           [] OTHER -> NullOpt

\* toImageResizePolicy, of the result of Message::header
toImageResizePolicy(value, default) ==
    IF value = <<>> THEN default
    ELSE IF Len(value[1]) # 1 THEN NullOpt
    ELSE CASE value[1][1] = "0" -> "NoResize"
           [] value[1][1] = "1" -> "ResizeToFit"
           [] value[1][1] = "2" -> "ResizeToFill"
           [] value[1][1] = "3" -> "StretchToFill"
           [] OTHER -> NullOpt

\* What the storage of an empty optional holds
Indeterminate == "indeterminate"

\* optional::operator*: the value, with no test that there is one; for an
\* empty optional the behaviour is undefined, and where the build goes on it
\* reads what the storage holds
Deref(opt) == IF opt = NullOpt THEN Indeterminate ELSE opt

\* The finalizer Sequencer::hookGoodImageRender gives the MessageParser; the
\* call holds the two policies, autoScroll, requestStatus and the name, and
\* the screen extent, the image offset and the image size
GoodImageRenderFinalizer(st, m) ==
    LET screenRows == toNumber(MessageHeader(m, <<"r">>), 0)
        screenCols == toNumber(MessageHeader(m, <<"c">>), 0)
        name == MessageHeader(m, <<"n">>)
        x == toNumber(MessageHeader(m, <<"x">>), 0)
        y == toNumber(MessageHeader(m, <<"y">>), 0)
        imageWidth == toNumber(MessageHeader(m, <<"w">>), 0)
        imageHeight == toNumber(MessageHeader(m, <<"h">>), 0)
        alignmentPolicy == toImageAlignmentPolicy(MessageHeader(m, <<"a">>), "MiddleCenter")
        resizePolicy == toImageResizePolicy(MessageHeader(m, <<"z">>), "NoResize")
        requestStatus == MessageHeader(m, <<"s">>) # <<>>
        autoScroll == MessageHeader(m, <<"l">>) # <<>>
    IN  [st EXCEPT !.screen = Append(@,
            Call("renderImage",
                 <<Deref(alignmentPolicy), Deref(resizePolicy), BoolText(autoScroll),
                   BoolText(requestStatus)>> \o (IF name = <<>> THEN <<>> ELSE name[1]),
                 <<screenCols, screenRows, y, x, imageWidth, imageHeight>>))]

\* The finalizer Sequencer::hookGoodImageRelease gives the MessageParser
GoodImageReleaseFinalizer(st, m) ==
    LET name == MessageHeader(m, <<"n">>)
    IN  IF name # <<>>
        THEN [st EXCEPT !.screen = Append(@, Call("releaseImage", name[1], <<>>))]
        ELSE st

\* The finalizer Sequencer::hookGoodImageOneshot gives the MessageParser;
\* the call holds the format, the two policies, autoScroll and the body, and
\* the image size and the screen extent
GoodImageOneshotFinalizer(st, m) ==
    LET imageFormat == toImageFormat(MessageHeader(m, <<"f">>))
        imageWidth == toNumber(MessageHeader(m, <<"w">>), 0)
        imageHeight == toNumber(MessageHeader(m, <<"h">>), 0)
        screenRows == toNumber(MessageHeader(m, <<"r">>), 0)
        screenCols == toNumber(MessageHeader(m, <<"c">>), 0)
        alignmentPolicy == toImageAlignmentPolicy(MessageHeader(m, <<"a">>), "MiddleCenter")
        resizePolicy == toImageResizePolicy(MessageHeader(m, <<"z">>), "NoResize")
        autoScroll == MessageHeader(m, <<"l">>) # <<>>
    IN  [st EXCEPT !.screen = Append(@,
            Call("renderImage",
                 <<Deref(imageFormat), Deref(alignmentPolicy), Deref(resizePolicy),
                   BoolText(autoScroll)>> \o m.body,
                 <<imageWidth, imageHeight, screenCols, screenRows>>))]

\* The optionals the finalizer of the hooked sub-parser dereferences
Dereferenced(st) ==
    LET m == ParseMessage(st.hooked.data)
        policies == { toImageAlignmentPolicy(MessageHeader(m, <<"a">>), "MiddleCenter"),
                      toImageResizePolicy(MessageHeader(m, <<"z">>), "NoResize") }
    IN  CASE st.hooked.kind = "GoodImageRender" -> policies
          [] st.hooked.kind = "GoodImageOneshot" ->
                policies \cup { toImageFormat(MessageHeader(m, <<"f">>)) }
          [] OTHER -> {}

\* Faulty variant of the finalizer of hookGoodImageUpload: the image is
\* uploaded without a name as well.
GoodImageUploadUnnamed(st, m) ==
    LET name == MessageHeader(m, <<"n">>)
        imageFormat == toImageFormat(MessageHeader(m, <<"f">>))
        width == toNumber(MessageHeader(m, <<"w">>), 0)
        height == toNumber(MessageHeader(m, <<"h">>), 0)
        validImage ==
            /\ imageFormat # NullOpt
            /\ \/ imageFormat = "PNG" /\ width = 0 /\ height = 0
               \/ imageFormat # "PNG" /\ width # 0 /\ height # 0
    IN  IF validImage
        THEN [st EXCEPT !.screen = Append(@,
                Call("uploadImage",
                     <<imageFormat>> \o (IF name = <<>> THEN <<>> ELSE name[1]) \o m.body,
                     <<width, height, IF name = <<>> THEN 0 ELSE Len(name[1])>>))]
        ELSE st

\* The finalizer Sequencer::hookGoodImageUpload gives the MessageParser; the
\* call holds the format, the name and the body, and the size and the length
\* of the name
GoodImageUploadFinalizer(st, m) ==
    LET name == MessageHeader(m, <<"n">>)
        imageFormat == toImageFormat(MessageHeader(m, <<"f">>))
        width == toNumber(MessageHeader(m, <<"w">>), 0)
        height == toNumber(MessageHeader(m, <<"h">>), 0)
        validImage ==
            /\ imageFormat # NullOpt
            /\ \/ imageFormat = "PNG" /\ width = 0 /\ height = 0
               \/ imageFormat # "PNG" /\ width # 0 /\ height # 0
    IN  IF name # <<>> /\ validImage
        THEN [st EXCEPT !.screen = Append(@,
                Call("uploadImage", <<imageFormat>> \o name[1] \o m.body,
                     <<width, height, Len(name[1])>>))]
        ELSE st

\* ParserExtension::finalize of the hooked sub-parser
ParserFinalize(st) ==
    CASE st.hooked.kind = "SixelParser" -> SixelFinalizer(st, st.hooked.data)
      [] st.hooked.kind = "SimpleStringCollector" ->
            StatusStringFinalizer(st, st.hooked.data)
      [] st.hooked.kind = "GoodImageUpload" ->
            GoodImageUploadFinalizer(st, ParseMessage(st.hooked.data))
      [] st.hooked.kind = "GoodImageRender" ->
            GoodImageRenderFinalizer(st, ParseMessage(st.hooked.data))
      [] st.hooked.kind = "GoodImageRelease" ->
            GoodImageReleaseFinalizer(st, ParseMessage(st.hooked.data))
      [] st.hooked.kind = "GoodImageOneshot" ->
            GoodImageOneshotFinalizer(st, ParseMessage(st.hooked.data))
      [] OTHER -> st

\* Faulty variant of Sequencer::unhook: the parser is finalized but not reset.
UnhookKeepParser(st) ==
    IF st.hooked # NoParser THEN ParserFinalize(st) ELSE st

\* Sequencer::unhook
Unhook(st) ==
    IF st.hooked # NoParser
    THEN [ParserFinalize(st) EXCEPT !.hooked = NoParser]
    ELSE st

\* The process stopped inside the finalizer, where the build tests that the
\* optional holds a value: no call is made and std::abort is reached
Terminated(st) == [st EXCEPT !.reports = Append(@, Report("std::abort", "optional"))]

\* What Sequencer::unhook can come to: it returns, or, where the finalizer
\* dereferences an empty optional, the process may stop there instead
UnhookOutcomes(st) ==
    { [state |-> Unhook(st), aborted |-> FALSE] }
        \cup (IF st.hooked # NoParser /\ NullOpt \in Dereferenced(st)
               THEN { [state |-> Terminated(st), aborted |-> TRUE] }
               ELSE {})

----------------------------------------------------------------------------
(* The event producer: it feeds one sequence of the catalogue at a time,   *)
(* byte by byte, through the entry points, as the VT parser does.          *)

Item(kind, bytes, data) == [kind |-> kind, bytes |-> bytes, data |-> data]

\* The sequences the producer sends: bytes up to the final char, then the
\* string of an OSC or DCS.
Catalogue ==
    { Item("CSI", <<"?", "2", "0", "2", "6", "h">>, <<>>),
      Item("CSI", <<"?", "2", "0", "2", "6", "l">>, <<>>),
      Item("CSI", <<"?", "6", ";", "2", "0", "2", "6", "l">>, <<>>),
      Item("CSI", <<"H">>, <<>>),
      Item("CSI", <<"1", ";", "1", "H">>, <<>>),
      Item("CSI", <<"6", "n">>, <<>>),
      Item("CSI", <<"~">>, <<>>),
      Item("ESC", <<"7">>, <<>>),
      Item("OSC", <<>>, <<"2", ";", "t">>),
      Item("DCS", <<"q">>, <<"x">>),
      Item("DCS", <<"$", "q">>, <<"m">>),
      Item("DCS", <<"z">>, <<"x">>) }

PrintChars == {"a", "b"}

ControlCodes == {"BEL"}

LeaderBytes == {"<", "=", ">", "?"}

ParamBytes == {";", ":"} \cup {Digits[d] : d \in 1..10}

IntermediateBytes == {" ", "!", "#", "$"}

\* No message is being passed to the MessageParser
Idle == [mode |-> "idle", passed |-> <<>>, pending |-> <<>>, pieces |-> 0]

\* sent counts the bytes of the current sequence the producer has passed on
Ground == [mode |-> "Ground", bytes |-> <<>>, data |-> <<>>, sent |-> 0]

\* The producer of a process that has stopped: nothing is fed any more
Aborted == [mode |-> "Aborted", bytes |-> <<>>, data |-> <<>>, sent |-> 0]

\* The sequencer state an entry point starts from: no call made on the screen yet
State ==
    [sequence |-> sequence_, batching |-> batching_, queue |-> batchedSequences_,
     hooked |-> hookedParser_, screen |-> <<>>, reports |-> <<>>,
     counter |-> instructionCounter_]

\* The entry point leaves the sequencer in state st
Set(st) ==
    /\ Len(st.queue) <= MaxQueue
    /\ sequence_' = st.sequence
    /\ batching_' = st.batching
    /\ batchedSequences_' = st.queue
    /\ hookedParser_' = st.hooked
    /\ screen_' = st.screen
    /\ reports_' = st.reports
    /\ IF counted
       THEN /\ st.counter <= MaxInstructions
            /\ instructionCounter_' = st.counter
       ELSE instructionCounter_' = instructionCounter_
    /\ UNCHANGED <<messageParser_, message_, feed, parserExtension_, counted>>

\* The producer has consumed the next byte of the sequence it is sending
NextByte == [producer EXCEPT !.bytes = Tail(@), !.sent = @ + 1]

Assembling == producer.mode \in {"ESC", "CSI", "DCS"} /\ producer.bytes # <<>>

Init ==
    /\ sequence_ = InitialSequence
    /\ batching_ = FALSE
    /\ batchedSequences_ = <<>>
    /\ hookedParser_ = NoParser
    /\ screen_ = <<>>
    /\ reports_ = <<>>
    /\ messageParser_ = NewMessageParser
    /\ message_ = NoMessage
    /\ feed = Idle
    /\ parserExtension_ = FALSE
    /\ instructionCounter_ = 0
    /\ counted = FALSE
    /\ producer = Ground
    /\ lastCall = <<"none", NUL>>

print ==
    /\ producer.mode = "Ground"
    /\ \E ch \in PrintChars :
        /\ Set(PrintChar(State, ch))
        /\ lastCall' = <<"print", ch>>
    /\ UNCHANGED producer

execute ==
    /\ producer.mode \in {"Ground", "ESC", "CSI", "DCS"}
    /\ \E c0 \in ControlCodes :
        /\ Set(ExecuteControlFunction(State, c0))
        /\ lastCall' = <<"execute", c0>>
    /\ UNCHANGED producer

clear ==
    /\ producer.mode = "Ground"
    /\ \E item \in Catalogue :
        producer' = [mode |-> item.kind, bytes |-> item.bytes, data |-> item.data,
                     sent |-> 0]
    /\ Set(Clear(State))
    /\ lastCall' = <<"clear", NUL>>

collectLeader ==
    /\ producer.mode \in {"CSI", "DCS"}
    /\ producer.bytes # <<>>
    /\ Head(producer.bytes) \in LeaderBytes
    /\ Set(CollectLeader(State, Head(producer.bytes)))
    /\ producer' = NextByte
    /\ lastCall' = <<"collectLeader", Head(producer.bytes)>>

param ==
    /\ producer.mode \in {"CSI", "DCS"}
    /\ Len(producer.bytes) > 1
    /\ Head(producer.bytes) \in ParamBytes
    /\ Set(Param(State, Head(producer.bytes)))
    /\ producer' = NextByte
    /\ lastCall' = <<"param", Head(producer.bytes)>>

collect ==
    /\ Assembling
    /\ Len(producer.bytes) > 1
    /\ Head(producer.bytes) \in IntermediateBytes
    /\ Set(Collect(State, Head(producer.bytes)))
    /\ producer' = NextByte
    /\ lastCall' = <<"collect", Head(producer.bytes)>>

dispatchESC ==
    /\ producer.mode = "ESC"
    /\ Len(producer.bytes) = 1
    /\ Set(DispatchESC(State, Head(producer.bytes)))
    /\ producer' = Ground
    /\ lastCall' = <<"dispatchESC", Head(producer.bytes)>>

dispatchCSI ==
    /\ producer.mode = "CSI"
    /\ Len(producer.bytes) = 1
    /\ Set(DispatchCSI(State, Head(producer.bytes)))
    /\ producer' = Ground
    /\ lastCall' = <<"dispatchCSI", Head(producer.bytes)>>

startOSC ==
    /\ producer.mode = "OSC"
    /\ Set(StartOSC(State))
    /\ producer' = [producer EXCEPT !.mode = "OSC_String"]
    /\ lastCall' = <<"startOSC", NUL>>

putOSC ==
    /\ producer.mode = "OSC_String"
    /\ producer.data # <<>>
    /\ Set(PutOSC(State, Head(producer.data)))
    /\ producer' = [producer EXCEPT !.data = Tail(@), !.sent = @ + 1]
    /\ lastCall' = <<"putOSC", Head(producer.data)>>

dispatchOSC ==
    /\ producer.mode = "OSC_String"
    /\ producer.data = <<>>
    /\ \E parsed \in parseOSCOutcomes(sequence_.intermediates) :
        Set(DispatchOSCWith(State, parsed))
    /\ producer' = Ground
    /\ lastCall' = <<"dispatchOSC", NUL>>

hook ==
    /\ producer.mode = "DCS"
    /\ Len(producer.bytes) = 1
    /\ Set(Hook(State, Head(producer.bytes)))
    /\ producer' = [producer EXCEPT !.mode = "DCS_Passthrough", !.bytes = <<>>]
    /\ lastCall' = <<"hook", Head(producer.bytes)>>

\* put inside a DCS string, or out of order when the producer is at rest
put ==
    /\ \/ /\ producer.mode = "DCS_Passthrough"
          /\ producer.data # <<>>
          /\ Set(Put(State, Head(producer.data)))
          /\ producer' = [producer EXCEPT !.data = Tail(@), !.sent = @ + 1]
          /\ lastCall' = <<"put", Head(producer.data)>>
       \/ /\ producer.mode = "Ground"
          /\ Set(Put(State, "x"))
          /\ UNCHANGED producer
          /\ lastCall' = <<"put", "x">>

\* unhook at the end of a DCS string (or where it is cut short), or out of order
unhook ==
    /\ producer.mode \in {"DCS_Passthrough", "Ground"}
    /\ \E outcome \in UnhookOutcomes(State) :
        /\ Set(outcome.state)
        /\ producer' = IF outcome.aborted THEN Aborted ELSE Ground
    /\ lastCall' = <<"unhook", NUL>>

Next ==
    \/ print
    \/ execute
    \/ clear
    \/ collectLeader
    \/ param
    \/ collect
    \/ dispatchESC
    \/ dispatchCSI
    \/ startOSC
    \/ putOSC
    \/ dispatchOSC
    \/ hook
    \/ put
    \/ unhook

Spec == Init /\ [][Next]_vars

----------------------------------------------------------------------------
(* The same entry points with instructionCounter_ followed, up to          *)
(* MaxInstructions.                                                        *)

CounterInit ==
    /\ sequence_ = InitialSequence
    /\ batching_ = FALSE
    /\ batchedSequences_ = <<>>
    /\ hookedParser_ = NoParser
    /\ screen_ = <<>>
    /\ reports_ = <<>>
    /\ messageParser_ = NewMessageParser
    /\ message_ = NoMessage
    /\ feed = Idle
    /\ parserExtension_ = FALSE
    /\ instructionCounter_ = 0
    /\ counted = TRUE
    /\ producer = Ground
    /\ lastCall = <<"none", NUL>>

CounterSpec == CounterInit /\ [][Next]_vars

----------------------------------------------------------------------------
(* The producer over boundary inputs: sequences built to reach the bounds  *)
(* of the assembler, fed through the same entry points.                    *)

Repeat(b, n) == [i \in 1..n |-> b]

\* How far the runs of separators go beyond MaxParameters
ExtraSeparators == 2

\* CSI sequences of a run of ';' and a run of ':', in either order
SeparatorInputs ==
    UNION { { Item("CSI", Repeat(";", a) \o Repeat(":", b) \o <<"m">>, <<>>),
              Item("CSI", Repeat(":", b) \o Repeat(";", a) \o <<"m">>, <<>>) } :
            a \in 0..(MaxParameters + ExtraSeparators),
            b \in {0, 1, MaxParameters - 1, MaxParameters + ExtraSeparators} }

\* The longest run of digits sent for one parameter
MaxDigits == 10

\* Runs of digits: 9, 99, ... and 2^32
DigitRuns ==
    { Repeat("9", n) : n \in 1..MaxDigits }
        \cup { <<"4", "2", "9", "4", "9", "6", "7", "2", "9", "6">> }

\* CSI sequences of one parameter
DigitInputs == { Item("CSI", ds \o <<"m">>, <<>>) : ds \in DigitRuns }

\* How far the OSC payloads go beyond MaxOscLength
ExtraOsc == 2

\* OSC payloads of a run of 'x' up to the bound, one character of 1 to 4
\* bytes and two more 'x'
LongOscInputs ==
    { Item("OSC", <<>>, Repeat("x", n) \o <<ch, "x", "x">>) :
        n \in (MaxOscLength - 6)..(MaxOscLength + ExtraOsc),
        ch \in {"x", "U+00E9", "U+20AC", "U+1F600"} }

\* The digits of OSC codes: small ones, INT_MAX, 2^31 and 2^32 + 2
OscCodes ==
    { <<"2">>, <<"0">>, <<"1", "2">>, <<"0", "0", "2">>,
      <<"2", "1", "4", "7", "4", "8", "3", "6", "4", "7">>,
      <<"2", "1", "4", "7", "4", "8", "3", "6", "4", "8">>,
      <<"4", "2", "9", "4", "9", "6", "7", "2", "9", "8">> }

\* What follows the separator of an OSC code
OscRests == { <<>>, <<"t">>, <<"a", ";", "b">>, <<";", "t">> }

\* OSC payloads of the form digits ; rest, and payloads of a single-byte code
OscCodeInputs ==
    { Item("OSC", <<>>, ds \o <<";">> \o rest) : ds \in OscCodes, rest \in OscRests }
        \cup { Item("OSC", <<>>, <<"L", ";", "t">> ), Item("OSC", <<>>, <<"L", "t">>) }

\* CSI sequences of functions that take a selector, with selectors they
\* accept and selectors they do not
SelectorInputs ==
    { Item("CSI", bytes, <<>>) :
        bytes \in { <<"K">>, <<"1", "K">>, <<"2", "K">>, <<"3", "K">>,
                    <<"g">>, <<"0", "g">>, <<"3", "g">>, <<"1", "g">>,
                    <<" ", "q">>, <<"2", " ", "q">>, <<"7", " ", "q">>,
                    <<"1", ";", "2", " ", "q">>,
                    <<"$", "|">>, <<"1", "3", "2", "$", "|">>, <<"1", "0", "0", "$", "|">>,
                    <<"$", "w">>, <<"2", "$", "w">>, <<"1", "$", "w">>, <<"3", "$", "w">>,
                    <<"?", "6", "h">>, <<"?", "8", "h">>, <<"?", "8", "l">>,
                    <<"?", "6", ";", "8", "h">>, <<"?", "9", "9", "9", "9", "l">> } }

\* CSI sequences of SGR: the color arguments of 38, 48 and 58 in both
\* forms, whole and cut short, renditions, and lists of MaxParameters groups
SgrInputs ==
    { Item("CSI", bytes, <<>>) :
        bytes \in {
                    <<"3", "8", ":", "5", "m">>,
                    <<"3", "8", ":", "5", ":", "1", "m">>,
                    <<"3", "8", ":", "5", ":", "2", "5", "6", "m">>,
                    <<"3", "8", ":", "2", ":", "1", ":", "2", ":", "3", "m">>,
                    <<"3", "8", ":", "2", ":", "3", "0", "0", ":", "0", ":", "0", "m">>,
                    <<"3", "8", ":", "2", ":", "1", ":", "2", "m">>,
                    <<"3", "8", ":", "2", "m">>,
                    <<"3", "8", ":", "3", ":", "1", "m">>,
                    <<"3", "8", ";", "5", ";", "1", "m">>,
                    <<"3", "8", ";", "5", "m">>,
                    <<"3", "8", "m">>,
                    <<"3", "8", ";", "2", ";", "1", ";", "2", ";", "3", "m">>,
                    <<"3", "8", ";", "2", ";", "1", ";", "2", "m">>,
                    <<"3", "8", ";", "2", ";", "2", "5", "6", ";", "0", ";", "0", "m">>,
                    <<"3", "8", ";", "7", "m">>,
                    <<"4", "8", ":", "5", "m">>,
                    <<"4", "8", ":", "5", ":", "7", "m">>,
                    <<"4", "8", ";", "5", ";", "7", "m">>,
                    <<"5", "8", ":", "5", "m">>,
                    <<"5", "8", ":", "2", ":", "1", ":", "2", ":", "3", "m">>,
                    <<"5", "8", ";", "2", ";", "1", ";", "2", ";", "3", "m">>,
                    <<"4", ":", "3", "m">>,
                    <<"4", "m">>,
                    <<"4", ":", "9", "m">>,
                    <<"1", ";", "3", "1", ";", "4", "2", "m">>,
                    <<"9", "0", ";", "1", "0", "7", "m">>,
                    <<"3", "8", ":", "5", ":", "1", ";", "1", "m">>,
                    <<"3", "8", ";", "5", ";", "1", ";", "4", "m">>,
                    <<"3", "8", ";", "2", ";", "1", ";", "2", ";", "3", ";", "3", "8", ";", "2", ";", "1", ";", "2", ";", "3", ";", "3", "8", ";", "2", ";", "1", ";", "2", ";", "3", ";", "1", "m">>,
                    <<"3", "8", ";", "5", ";", "3", "8", ";", "5", ";", "3", "8", ";", "5", ";", "3", "8", ";", "5", ";", "3", "8", ";", "5", ";", "3", "8", ";", "5", ";", "3", "8", ";", "5", ";", "3", "8", ";", "5", "m">>,
                    <<"3", "8", ":", "5", ";", "3", "8", ":", "5", ";", "3", "8", ":", "5", ";", "3", "8", ":", "5", ";", "3", "8", ":", "5", ";", "3", "8", ":", "5", ";", "3", "8", ":", "5", ";", "3", "8", ":", "5", ";", "3", "8", ":", "5", ";", "3", "8", ":", "5", ";", "3", "8", ":", "5", ";", "3", "8", ":", "5", ";", "3", "8", ":", "5", ";", "3", "8", ":", "5", ";", "3", "8", ":", "5", ";", "3", "8", ":", "5", "m">>,
                    <<"6", "0", "m">>,
                    <<"3", "8", ";", "2", ";", "2", "5", "6", ";", "0", ";", "0", ";", "1", "m">>,
                    <<"3", "8", ";", "2", ";", "1", ";", "2", ";", "3", ";", "1", "m">>,
                    <<"4", "8", ";", "2", ";", "0", ";", "9", "9", "9", ";", "0", ";", "4", ";", "1", "m">>,
                    <<"3", "8", ":", "2", ":", "3", "0", "0", ":", "0", ":", "0", ";", "1", "m">>,
                    <<"3", "8", ";", "5", ";", "7", ";", "1", "m">>,
                    <<"5", "8", ";", "2", ";", "0", ";", "0", ";", "4", "2", "9", "4", "9", "6", "7", "2", "9", "5", ";", "3", "m">>,
                    <<"3", "8", ";", "2", ";", "1", "0", ";", "2", "0", ";", "3", "0", "m">>,
                    <<"3", "8", ":", "2", ":", "1", "0", ":", "2", "0", ":", "3", "0", "m">>,
                    <<"3", "8", ":", "2", ":", "0", ":", "1", "0", ":", "2", "0", ":", "3", "0", "m">>,
                    <<"3", "8", ":", "2", ":", "1", "0", ":", "2", "0", ":", "3", "0", ";", "1", "m">>,
                    <<"3", "8", ";", "2", ";", "1", "0", ";", "2", "0", ";", "3", "0", ";", "1", "m">>,
                    <<"3", "8", ";", "2", ";", "0", ";", "0", ";", "2", "5", "5", "m">>,
                    <<"3", "8", ":", "2", ":", "2", "5", "5", ":", "0", ":", "0", "m">>,
                    <<"4", "8", ";", "2", ";", "1", "0", ";", "2", "0", ";", "3", "0", "m">>,
                    <<"4", "8", ":", "2", ":", "1", "0", ":", "2", "0", ":", "3", "0", ";", "4", "m">>,
                    <<"4", "8", ":", "2", ":", "1", ":", "1", "0", ":", "2", "0", ":", "3", "0", "m">>,
                    <<"5", "8", ":", "2", ":", "2", ":", "1", "0", ":", "2", "0", ":", "3", "0", ";", "1", "m">>,
                    <<"5", "8", ";", "2", ";", "2", "5", "5", ";", "2", "5", "5", ";", "2", "5", "5", ";", "1", "m">>,
                    <<"3", "8", ";", "5", ";", "3", "0", "0", "m">>,
                    <<"4", "8", ";", "5", ";", "2", "5", "6", "m">>,
                    <<"5", "8", ";", "5", ";", "4", "2", "9", "4", "9", "6", "7", "2", "9", "5", "m">>,
                    <<"3", "8", ";", "5", ";", "2", "5", "5", "m">>,
                    <<"3", "8", ":", "5", ":", "3", "0", "0", "m">>,
                    <<"4", "8", ":", "5", ":", "2", "5", "5", "m">>,
                    <<"3", "8", ";", "5", ";", "3", "0", "0", ";", "1", "m">> } }

\* The final bytes of the cursor motion functions: CUU, CUD, CUF, CUB, CNL,
\* CPL, CHA, CUP, VPA, HPA, HPR and HVP
CursorFinals == {"A", "B", "C", "D", "E", "F", "G", "H", "d", "0x60", "a", "f"}

\* CSI sequences of the cursor motion functions: with no parameter, with
\* one, with two, and with parameters left empty or 0
CursorInputs ==
    { Item("CSI", ps \o <<final>>, <<>>) :
        ps \in { <<>>, <<"0">>, <<"5">>, <<"3", ";", "4">>, <<";", "4">>, <<"3", ";">>,
                 <<"0", ";", "0">>, <<";">> },
        final \in CursorFinals }

Inputs ==
    SeparatorInputs \cup DigitInputs \cup LongOscInputs \cup OscCodeInputs
        \cup SelectorInputs \cup SgrInputs \cup CursorInputs

\* clear at the start of a boundary input
clearInput ==
    /\ producer.mode = "Ground"
    /\ \E item \in Inputs :
        producer' = [mode |-> item.kind, bytes |-> item.bytes, data |-> item.data,
                     sent |-> 0]
    /\ Set(Clear(State))
    /\ lastCall' = <<"clear", NUL>>

AssembleNext ==
    \/ clearInput
    \/ collectLeader
    \/ param
    \/ collect
    \/ dispatchCSI
    \/ startOSC
    \/ putOSC
    \/ dispatchOSC

AssembleSpec == Init /\ [][AssembleNext]_vars

----------------------------------------------------------------------------
(* The producer over DCS strings for the image upload: each is hooked,     *)
(* put byte by byte and unhooked.                                          *)

\* The headers of the strings: without a name, with a name and a format and
\* size that go together, and with a name and a format and size that do not
UploadHeaders ==
    { <<"a", "=", "f", "o", "o", ",", "b", "=", "b", "a", "r">>,
      <<"f", "=", "3">>,
      <<"n", "=", "f", "o", "o", ",", "f", "=", "3">>,
      <<"n", "=", "f", "o", "o", ",", "w", "=", "1", ",", "h", "=", "2">>,
      <<"n", "=", "f", "o", "o", ",", "f", "=", "2", ",", "w", "=", "1", "2", ",",
        "h", "=", "2">>,
      <<"n", "=", "!", "Y", "W", "J", "j", ",", "f", "=", "1", ",", "w", "=", "1", ",",
        "h", "=", "1">>,
      <<"n", "=", "f", "o", "o">>,
      <<"n", "=", "f", "o", "o", ",", "f", "=", "3", ",", "w", "=", "1">>,
      <<"n", "=", "f", "o", "o", ",", "f", "=", "9">>,
      <<"n", "=", "f", "o", "o", ",", "f", "=", "1", "2", ",", "w", "=", "1", ",",
        "h", "=", "1">>,
      <<"n", "=", "f", "o", "o", ",", "w", "=", "x", ",", "h", "=", "2">> }

\* The bodies of the strings: the base64 of abc, and abc as it is
UploadBodies == { <<"!", "Y", "W", "J", "j">>, <<"a", "b", "c">> }

\* DCS x sequences whose string is a message
UploadInputs ==
    { Item("DCS", <<"x">>, hs \o <<";">> \o body) :
        hs \in UploadHeaders, body \in UploadBodies }

\* DCS strings of the other sub-parsers, of two characters in either order,
\* and of a function that has none
StringInputs ==
    { Item("DCS", <<"$", "q">>, <<" ", "q">>),
      Item("DCS", <<"$", "q">>, <<"q", " ">>),
      Item("DCS", <<"q">>, <<"#", "0">>),
      Item("DCS", <<"q">>, <<"0", "#">>),
      Item("DCS", <<"z">>, <<"a", "b">>) }

\* The headers of the messages of the image render and one-shot functions:
\* the policies and the format absent, recognised and not
RenderHeaders ==
    { <<"n", "=", "f", "o", "o">>,
      <<"n", "=", "f", "o", "o", ",", "a", "=", "1", ",", "z", "=", "3">>,
      <<"n", "=", "f", "o", "o", ",", "a", "=", "x">>,
      <<"n", "=", "f", "o", "o", ",", "a", "=", "1", "2">>,
      <<"n", "=", "f", "o", "o", ",", "z", "=", "9">>,
      <<"a", "=", "0", ",", "s", ",", "l">>,
      <<"f", "=", "3">>,
      <<"f", "=", "9">>,
      <<"f", "=", "1", ",", "w", "=", "1", ",", "h", "=", "2", ",", "a", "=", "9", ",",
        "z", "=", "0">>,
      <<"f", "=", "2", ",", "z", "=", "4">>,
      <<"r", "=", "2", ",", "c", "=", "3", ",", "x", "=", "1", ",", "y", "=", "4">> }

\* DCS r, DCS s and DCS d sequences whose string is a message
RenderInputs ==
    { Item("DCS", <<final>>, hs \o <<";", "a", "b">>) :
        final \in {"r", "s", "d"}, hs \in RenderHeaders }

\* clear at the start of a DCS sequence
clearUpload ==
    /\ producer.mode = "Ground"
    /\ \E item \in UploadInputs \cup StringInputs \cup RenderInputs :
        producer' = [mode |-> item.kind, bytes |-> item.bytes, data |-> item.data,
                     sent |-> 0]
    /\ Set(Clear(State))
    /\ lastCall' = <<"clear", NUL>>

UploadNext ==
    \/ clearUpload
    \/ collect
    \/ hook
    \/ put
    \/ unhook

UploadSpec == Init /\ [][UploadNext]_vars

----------------------------------------------------------------------------
(* The MessageParser on its own: a message is passed to it byte by byte,   *)
(* piece after piece, and finalized.                                       *)

\* The pieces messages are made of
Pieces ==
    { <<"a">>, <<"b">>, <<"=">>, <<"=", "x">>, <<"=", "y">>, <<",">>, <<";">> }

\* The largest number of pieces of one message
MaxPieces == 5

\* How far the long messages go beyond the caps of the parser
ExtraBytes == 1

\* The i-th of the distinct keys 00, 01, 02, ...
Key(i) == <<Digits[(i \div 10) + 1], Digits[(i % 10) + 1]>>

RECURSIVE ManyKeys(_)
\* The declarations of the first n keys, each ended by ','
ManyKeys(n) ==
    IF n = 0 THEN <<>> ELSE ManyKeys(n - 1) \o Key(n - 1) \o <<",">>

\* Messages that go beyond MaxParamCount, MaxKeyLength and MaxValueLength:
\* more keys than the map takes and then a key it already has, one key or
\* two keys longer than the cap, a value longer than the cap
LongMessages ==
    { ManyKeys(MaxParamCount + ExtraBytes) \o <<"0", "0", "=", "x">>,
      Repeat("k", MaxKeyLength + ExtraBytes) \o <<"=", "x">>,
      Repeat("k", MaxKeyLength) \o <<"a", ",">> \o Repeat("k", MaxKeyLength) \o <<"b">>,
      <<"a", "=">> \o Repeat("v", MaxValueLength + ExtraBytes) \o <<",", "b">> }

\* The inputs of MessageParser_test.cpp for headers and bodies
TestMessages ==
    { <<"n", "a", "m", "e", "=">>,
      <<"n", "a", "m", "e", "=", "v", "a", "l", "u", "e">>,
      <<",", "f", "o", "o", "=", "t", "e", "x", "t", ",", ",", ",",
        "b", "a", "r", "=", "o", "t", "h", "e", "r", ",">>,
      <<";", "f", "o", "o">>,
      <<"a", "=", "A", ",", "b", "e", "e", "=", "e", "e", "e", "h", ";", "f", "o", "o">>,
      <<"a", "=", "A", ",", "b", "e", "e", "=", "e", "e", "e", "h", ";",
        "0x00", "0x1b", "0xff">> }

\* Bodies with the separators of the header part in them
BodyMessages ==
    { <<"a", ";", ";", ",", "=", "b">>,
      <<"a", "=", "x", ";", "b", "=", "y", ",", "c", ";">>,
      <<";", ";">> }

\* Values and bodies that start with '!': the base64 of ESC NUL BEL, of abc,
\* of a, of ",;", and data that is not base64
Base64Messages ==
    { <<"n", "a", "m", "e", "=", "!", "G", "w", "A", "H">>,
      <<"n", "=", "!", "Y", "W", "J", "j">>,
      <<"n", "=", "!", "Y", "Q", "=", "=">>,
      <<"n", "=", "!", "L", "D", "s", "=", ",", "m", "=", "x">>,
      <<"n", "=", "!", "a", "b">>,
      <<"n", "=", "!", "a", "*", "b", "c">>,
      <<"n", "=", "a", "!", "Y", "W", "J", "j">>,
      <<"a", "=", "f", "o", "o", ",", "b", "=", "b", "a", "r", ";", "!", "Y", "W", "J", "j">>,
      <<";", "!", "a", "b">>,
      <<";", "a", "b", "c", "!">> }

\* The whole messages passed to the parser
Messages == LongMessages \cup TestMessages \cup BodyMessages \cup Base64Messages

\* MessageParser::start, before a message passed piece after piece or a whole
\* message
start ==
    /\ feed.mode \in {"idle", "done"}
    /\ messageParser_' = NewMessageParser
    /\ message_' = NoMessage
    /\ \/ feed' = [mode |-> "passing", passed |-> <<>>, pending |-> <<>>, pieces |-> 0]
       \/ \E m \in Messages :
            feed' = [mode |-> "passing", passed |-> <<>>, pending |-> m,
                     pieces |-> MaxPieces]
    /\ UNCHANGED <<sequence_, batching_, batchedSequences_, hookedParser_, instructionCounter_, counted, screen_,
                   reports_, parserExtension_, producer, lastCall>>

\* MessageParser::pass of the next byte: of the piece under way, or of a new piece
pass ==
    /\ feed.mode = "passing"
    /\ \/ /\ feed.pending # <<>>
          /\ messageParser_' = Pass(messageParser_, Head(feed.pending))
          /\ feed' = [feed EXCEPT !.passed = Append(@, Head(feed.pending)),
                                  !.pending = Tail(@)]
       \/ /\ feed.pending = <<>>
          /\ feed.pieces < MaxPieces
          /\ \E piece \in Pieces :
                /\ messageParser_' = Pass(messageParser_, Head(piece))
                /\ feed' = [feed EXCEPT !.passed = Append(@, Head(piece)),
                                        !.pending = Tail(piece),
                                        !.pieces = @ + 1]
    /\ UNCHANGED <<message_, sequence_, batching_, batchedSequences_, hookedParser_, instructionCounter_, counted,
                   screen_, reports_, parserExtension_, producer, lastCall>>

\* MessageParser::finalize at the end of a piece: the Message goes to the
\* finalizer and the buffers are reset
finalize ==
    /\ feed.mode = "passing"
    /\ feed.pending = <<>>
    /\ message_' = Finalized(messageParser_)
    /\ messageParser_' = Reset(messageParser_)
    /\ feed' = [feed EXCEPT !.mode = "done"]
    /\ UNCHANGED <<sequence_, batching_, batchedSequences_, hookedParser_, instructionCounter_, counted, screen_,
                   reports_, parserExtension_, producer, lastCall>>

\* MessageParser::pass of the first byte of a whole message to a parser
\* that was finalized, without start() in between
passNext ==
    /\ feed.mode = "done"
    /\ \E m \in Messages :
        /\ messageParser_' = Pass(messageParser_, Head(m))
        /\ feed' = [mode |-> "passing", passed |-> <<Head(m)>>, pending |-> Tail(m),
                    pieces |-> MaxPieces]
    /\ message_' = NoMessage
    /\ UNCHANGED <<sequence_, batching_, batchedSequences_, hookedParser_, instructionCounter_, counted, screen_,
                   reports_, parserExtension_, producer, lastCall>>

MessageNext ==
    \/ start
    \/ pass
    \/ passNext
    \/ finalize

MessageSpec == Init /\ [][MessageNext]_vars

----------------------------------------------------------------------------
(* The MessageParser behind the events of the VT parser, as                *)
(* MessageParserTest of MessageParser_test.cpp hooks it: the string of a   *)
(* DCS sequence is the message.                                            *)

\* MessageParserTest::hook: a new MessageParser whose finalizer keeps the
\* Message; the string of the DCS sequence is about to be put
testHook ==
    /\ feed.mode \in {"idle", "done"}
    /\ parserExtension_' = TRUE
    /\ messageParser_' = NewMessageParser
    /\ \E m \in Messages :
        feed' = [mode |-> "passing", passed |-> <<>>, pending |-> m,
                 pieces |-> MaxPieces]
    /\ UNCHANGED <<message_, sequence_, batching_, batchedSequences_, hookedParser_, instructionCounter_, counted,
                   screen_, reports_, producer, lastCall>>

\* MessageParserTest::put: the byte is passed to the parser if there is one
testPut ==
    /\ feed.mode = "passing"
    /\ feed.pending # <<>>
    /\ messageParser_' = IF parserExtension_
                          THEN Pass(messageParser_, Head(feed.pending))
                          ELSE messageParser_
    /\ feed' = [feed EXCEPT !.passed = Append(@, Head(feed.pending)),
                            !.pending = Tail(@)]
    /\ UNCHANGED <<message_, parserExtension_, instructionCounter_, counted, sequence_, batching_,
                   batchedSequences_, hookedParser_, screen_, reports_, producer,
                   lastCall>>

\* MessageParserTest::unhook at the end of the string: the parser is
\* finalized and released if there is one
testUnhook ==
    /\ feed.mode = "passing"
    /\ feed.pending = <<>>
    /\ IF parserExtension_
       THEN /\ message_' = Finalized(messageParser_)
            /\ messageParser_' = Reset(messageParser_)
       ELSE UNCHANGED <<message_, messageParser_>>
    /\ parserExtension_' = FALSE
    /\ feed' = [feed EXCEPT !.mode = "done"]
    /\ UNCHANGED <<sequence_, batching_, batchedSequences_, hookedParser_, instructionCounter_, counted, screen_,
                   reports_, producer, lastCall>>

EmbeddedNext ==
    \/ testHook
    \/ testPut
    \/ testUnhook

EmbeddedSpec == Init /\ [][EmbeddedNext]_vars

----------------------------------------------------------------------------
(* The producer as an operator: a whole sequence, or a whole stream of     *)
(* sequences, sent through the entry points; the screen field gathers the  *)
(* calls of the whole stream.                                              *)

RECURSIVE SendBytes(_, _, _)
\* the bytes of a sequence up to its final char, classified as the VT parser does
SendBytes(st, kind, bytes) ==
    IF Len(bytes) = 1
    THEN CASE kind = "ESC" -> DispatchESC(st, bytes[1])
           [] kind = "CSI" -> DispatchCSI(st, bytes[1])
           [] kind = "DCS" -> Hook(st, bytes[1])
    ELSE SendBytes(
            CASE Head(bytes) \in LeaderBytes -> CollectLeader(st, Head(bytes))
              [] Head(bytes) \in ParamBytes -> Param(st, Head(bytes))
              [] Head(bytes) \in IntermediateBytes -> Collect(st, Head(bytes)),
            kind, Tail(bytes))

RECURSIVE PutOSCAll(_, _)
PutOSCAll(st, data) ==
    IF data = <<>> THEN st ELSE PutOSCAll(PutOSC(st, Head(data)), Tail(data))

RECURSIVE PutAll(_, _)
PutAll(st, data) ==
    IF data = <<>> THEN st ELSE PutAll(Put(st, Head(data)), Tail(data))

\* One sequence of the catalogue, from clear to its dispatch or unhook
Send(st, item) ==
    CASE item.kind \in {"ESC", "CSI"} -> SendBytes(Clear(st), item.kind, item.bytes)
      [] item.kind = "OSC" -> DispatchOSC(PutOSCAll(StartOSC(Clear(st)), item.data))
      [] item.kind = "DCS" ->
            Unhook(PutAll(SendBytes(Clear(st), "DCS", item.bytes), item.data))

RECURSIVE SendAll(_, _)
SendAll(st, items) ==
    IF items = <<>> THEN st ELSE SendAll(Send(st, Head(items)), Tail(items))

----------------------------------------------------------------------------
(* Properties                                                              *)

\* The screen operations among calls: every call but the verifyState hook
Effects(calls) == SelectSeq(calls, LAMBDA c : c.op # "verifyState")

HasCall(calls, op) == \E i \in 1..Len(calls) : calls[i].op = op

SetBatchedRendering == Call("setMode", <<"BatchedRendering", "true">>, <<>>)
ResetBatchedRendering == Call("setMode", <<"BatchedRendering", "false">>, <<>>)

\* seq is a DECSM / DECRM that contains the parameter 2026
IsSet2026(seq) == functionDefinition(seq) = "DECSM" /\ containsParameter(seq, 2026)
IsReset2026(seq) == functionDefinition(seq) = "DECRM" /\ containsParameter(seq, 2026)

\* What one queue entry does on the screen when it is delivered on its own
EntryCalls(e) ==
    CASE e.kind = "char" -> << Call("writeText", <<e.ch>>, <<>>) >>
      [] e.kind = "Sequence" -> FunctionCalls(functionDefinition(e.seq), e.seq)
      [] e.kind = "SixelImage" -> << Call("sixelImage", e.rgba, <<>>) >>

RECURSIVE ReplayCalls(_)
\* The entries of a queue delivered one after the other, first entry first
ReplayCalls(q) ==
    IF q = <<>> THEN <<>> ELSE EntryCalls(Head(q)) \o ReplayCalls(Tail(q))

\* The sequences of the catalogue the claims name
Set2026Item == Item("CSI", <<"?", "2", "0", "2", "6", "h">>, <<>>)
Reset2026Item == Item("CSI", <<"?", "2", "0", "2", "6", "l">>, <<>>)
CupItem == Item("CSI", <<"H">>, <<>>)
Cup11Item == Item("CSI", <<"1", ";", "1", "H">>, <<>>)

\* The batchable sequences of the catalogue other than the set and reset of 2026
BatchableItems ==
    { Item("CSI", <<"H">>, <<>>), Item("CSI", <<"1", ";", "1", "H">>, <<>>),
      Item("ESC", <<"7">>, <<>>), Item("OSC", <<>>, <<"2", ";", "t">>) }

\* The producer is between sequences and batching is off
AtRest == producer.mode = "Ground" /\ ~batching_

\* At rest, and the last entry point made no call on the screen: the calls
\* of a stream sent from here are the only ones in sight
Quiescent == AtRest /\ screen_ = <<>>

\* C1: while batching is on, print(ch) and the handling of a batchable
\* sequence (other than the reset of 2026, which ends the window) make no
\* screen operation and only append one entry, the char or the sequence, to
\* the batch queue.
C1_BatchedOnlyQueued ==
    [][ batching_ =>
          /\ lastCall'[1] = "print" =>
                /\ Effects(screen_') = <<>>
                /\ batchedSequences_' = Append(batchedSequences_, CharEntry(lastCall'[2]))
          /\ ( /\ lastCall'[1] \in {"dispatchESC", "dispatchCSI"}
               /\ functionDefinition(sequence_') # NoFunction
               /\ isBatchable(functionDefinition(sequence_'))
               /\ ~IsReset2026(sequence_') ) =>
                /\ Effects(screen_') = <<>>
                /\ batchedSequences_' = Append(batchedSequences_, SeqEntry(sequence_'))
          /\ lastCall'[1] = "dispatchOSC" =>
                /\ Effects(screen_') = <<>>
                /\ \/ batchedSequences_' = batchedSequences_
                   \/ /\ Len(batchedSequences_') = Len(batchedSequences_) + 1
                      /\ SubSeq(batchedSequences_', 1, Len(batchedSequences_)) = batchedSequences_
                      /\ batchedSequences_'[Len(batchedSequences_')].kind = "Sequence"
                      /\ batchedSequences_'[Len(batchedSequences_')].seq.category = "OSC"
      ]_vars

\* C1 witness: batching is on, a print was queued earlier and a CUP has just
\* been queued behind it.
C1_Witness ==
    /\ batching_
    /\ lastCall = <<"dispatchCSI", "H">>
    /\ Len(batchedSequences_) >= 3
    /\ batchedSequences_[Len(batchedSequences_)].kind = "Sequence"
    /\ batchedSequences_[Len(batchedSequences_) - 1].kind = "char"

\* C2: a DECRM containing 2026 leaves batching off and the queue empty, and
\* the screen receives the queued entries in insertion order (prints,
\* sequences and images in their call order) followed by the calls of the
\* reset-mode function itself.
C2_ResetReplaysInOrder ==
    [][ (lastCall'[1] = "dispatchCSI" /\ IsReset2026(sequence_')) =>
          /\ ~batching_'
          /\ batchedSequences_' = <<>>
          /\ Effects(screen_') =
                ReplayCalls(batchedSequences_) \o setModesDEC(sequence_', 0, FALSE)
      ]_vars

\* C2 witness: a reset has just replayed a print, an image and a sequence.
C2_Witness ==
    /\ lastCall[1] = "dispatchCSI"
    /\ IsReset2026(sequence_)
    /\ HasCall(screen_, "writeText")
    /\ HasCall(screen_, "sixelImage")
    /\ HasCall(screen_, "moveCursorTo")

\* C3 as claimed: for batchable A, B, C the stream DECSM 2026; A; B; C;
\* DECRM 2026 and the stream DECSM 2026; DECRM 2026; A; B; C, sent from
\* rest, make the same sequence of screen operations.
C3_SameEffects ==
    Quiescent =>
        LET on == Send(State, Set2026Item)
            off == Send(on, Reset2026Item)
        IN  \A A \in BatchableItems, B \in BatchableItems, C \in BatchableItems :
                Effects(Send(SendAll(on, <<A, B, C>>), Reset2026Item).screen) =
                    Effects(SendAll(off, <<A, B, C>>).screen)

\* The calls of a list other than the reset's setMode(BatchedRendering, false)
C3_ButReset(calls) == SelectSeq(calls, LAMBDA c : c # ResetBatchedRendering)

\* C3 amended: the two streams make the same screen operations in the same
\* order but for the reset's own setMode(BatchedRendering, false): the first
\* stream makes it last, after the operations of A, B, C, and the second
\* makes it before them.
C3_SameEffectsButReset ==
    Quiescent =>
        LET on == Send(State, Set2026Item)
            off == Send(on, Reset2026Item)
        IN  \A A \in BatchableItems :
              LET onA == Send(on, A)
                  offA == Send(off, A)
              IN  \A B \in BatchableItems :
                    LET onAB == Send(onA, B)
                        offAB == Send(offA, B)
                    IN  \A C \in BatchableItems :
                          LET batched == Effects(Send(Send(onAB, C), Reset2026Item).screen)
                              unbatched == Effects(Send(offAB, C).screen)
                              n == Len(Effects(off.screen))
                              abc == SubSeq(unbatched, n + 1, Len(unbatched))
                          IN  /\ C3_ButReset(batched) = C3_ButReset(unbatched)
                              /\ batched = C3_ButReset(batched) \o <<ResetBatchedRendering>>
                              /\ Len(abc) = 3
                              /\ ~HasCall(abc, "setMode")
                              /\ unbatched[n] = ResetBatchedRendering

\* C3 witness: a run has sent DECSM 2026, three batchable sequences and
\* DECRM 2026, and the reset has just replayed them.
C3_Witness ==
    /\ lastCall = <<"dispatchCSI", "l">>
    /\ IsReset2026(sequence_)
    /\ Len(Effects(screen_)) = 5
    /\ HasCall(screen_, "moveCursorTo")
    /\ HasCall(screen_, "saveCursor")
    /\ HasCall(screen_, "setWindowTitle")

MoveCursorTo11 == Call("moveCursorTo", <<>>, <<1, 1>>)

CursorOps(calls) == SelectSeq(calls, LAMBDA c : c.op = "moveCursorTo")

\* C4: for CSI ?2026 h, CSI H, CSI 1;1H, CSI ?2026 l sent from rest, no
\* screen operation is made before the reset, and the reset delivers each of
\* the two queued cursor-position operations exactly once and in order.
C4_QueuedDeliveredOnce ==
    AtRest =>
        LET queued == SendAll(State, <<Set2026Item, CupItem, Cup11Item>>)
            flushed == Send([queued EXCEPT !.screen = <<>>], Reset2026Item)
        IN  /\ CursorOps(queued.screen) = <<>>
            /\ Len(queued.queue) >= 2
            /\ SubSeq(queued.queue, Len(queued.queue) - 1, Len(queued.queue)) =
                  << SeqEntry(Send(State, CupItem).sequence),
                     SeqEntry(Send(State, Cup11Item).sequence) >>
            /\ CursorOps(flushed.screen) = <<MoveCursorTo11, MoveCursorTo11>>
            /\ flushed.queue = <<>>

\* C4 witness: the run itself has sent the four sequences: the reset has
\* just delivered two cursor-position operations.
C4_Witness ==
    /\ lastCall = <<"dispatchCSI", "l">>
    /\ IsReset2026(sequence_)
    /\ CursorOps(screen_) = <<MoveCursorTo11, MoveCursorTo11>>
    /\ Len(Effects(screen_)) = 4

\* C5: a cursor position or device status report (not batchable) handled
\* while batching is on is applied to the screen in that call, and neither it
\* nor anything else is appended to the queue, whose entries stay queued.
C5_QueryAppliedAtOnce ==
    [][ ( /\ batching_
          /\ lastCall'[1] = "dispatchCSI"
          /\ functionDefinition(sequence_') = "CPR" ) =>
          /\ screen_' = CPR(sequence_') \o <<VerifyState>>
          /\ batchedSequences_' = batchedSequences_
          /\ batching_'
      ]_vars

\* C5 witness: a cursor position report has just reached the screen while two
\* entries or more wait in the queue.
C5_Witness ==
    /\ batching_
    /\ lastCall = <<"dispatchCSI", "n">>
    /\ HasCall(screen_, "reportCursorPosition")
    /\ Len(batchedSequences_) >= 2

\* C6 as claimed: when a DECSM containing 2026 has been handled, batching is
\* on and the screen has received setMode(BatchedRendering, true) in that call.
C6_SetModeReachesScreen ==
    (lastCall[1] = "dispatchCSI" /\ IsSet2026(sequence_)) =>
        /\ batching_
        /\ \E i \in 1..Len(screen_) : screen_[i] = SetBatchedRendering

\* C7: whenever the batching flag is off the batch queue is empty.
C7_QueueEmptyWhenOff == ~batching_ => batchedSequences_ = <<>>

\* C7 witness: a reset has just flushed a queue of three entries or more.
C7_Witness ==
    /\ ~batching_
    /\ lastCall[1] = "dispatchCSI"
    /\ IsReset2026(sequence_)
    /\ Len(Effects(screen_)) >= 4
    /\ batchedSequences_ = <<>>

\* C8: put(ch) and unhook() with no sub-parser hooked make no call on the
\* screen and leave the Sequence, the batching flag, the queue and the
\* hooked-parser slot as they were.
C8_PutUnhookNoOp ==
    [][ (hookedParser_ = NoParser /\ lastCall'[1] \in {"put", "unhook"}) =>
          /\ screen_' = <<>>
          /\ sequence_' = sequence_
          /\ batching_' = batching_
          /\ batchedSequences_' = batchedSequences_
          /\ hookedParser_' = NoParser
      ]_vars

\* C8 witness: put was called with nothing hooked while a sequence is held,
\* batching is on and the queue is not empty.
C8_Witness ==
    /\ lastCall[1] = "put"
    /\ hookedParser_ = NoParser
    /\ sequence_ # InitialSequence
    /\ batching_
    /\ batchedSequences_ # <<>>

\* C9: when the producer is outside a DCS string (every hook has had its
\* unhook) the hooked sub-parser slot is null.
C9_NoParserOutsideHook ==
    producer.mode # "DCS_Passthrough" => hookedParser_ = NoParser

\* C9 witness: an unhook has just finalized a hooked sub-parser.
C9_Witness ==
    /\ lastCall[1] = "unhook"
    /\ producer.mode = "Ground"
    /\ HasCall(screen_, "requestStatusString") \/ HasCall(screen_, "sixelImage")
    /\ hookedParser_ = NoParser

\* The Sequence is as clear() leaves it
IsCleared(seq) ==
    /\ seq.parameters = <<>>
    /\ seq.intermediates = <<>>
    /\ seq.dataString = <<>>
    /\ seq.leader = NUL
    /\ seq.finalChar = NUL

----------------------------------------------------------------------------
(* execute under batching                                                  *)

\* The codes Sequencer::executeControlFunction dispatches when batching is off
C0Codes == {"BEL", "BS", "TAB", "LF", "VT", "FF", "CR", "7", "8"}

\* The synthetic Sequence executeControlFunction builds for c0 under batching
C0Sequence(c0) == [InitialSequence EXCEPT !.category = "C0", !.finalChar = c0]

\* C11 as claimed: while batching is on, execute(c0) makes no screen
\* operation and appends the synthetic C0 Sequence with final char c0 to the
\* queue, for each of BEL, BS, TAB, LF, VT, FF, CR and the codes 0x37, 0x38.
C11_ExecuteQueued ==
    batching_ =>
        \A c0 \in C0Codes :
            LET done == ExecuteControlFunction(State, c0)
            IN  /\ Effects(done.screen) = <<>>
                /\ done.queue = Append(batchedSequences_, SeqEntry(C0Sequence(c0)))

----------------------------------------------------------------------------
(* Bounds of the assembler                                                 *)

\* C12: the Sequence never holds more than MaxParameters parameter groups nor
\* a group of more than MaxParameters sub-values, and a ';' or ':' sent when
\* the bound is reached adds no group and no sub-value.
C12_ParameterBounds ==
    [][ lastCall'[1] = "param" =>
          LET old == sequence_.parameters
              new == sequence_'.parameters
          IN  /\ Len(new) <= MaxParameters
              /\ \A i \in 1..Len(new) : Len(new[i]) <= MaxParameters
              /\ (lastCall'[2] = ";" /\ Len(old) = MaxParameters) => new = old
              /\ ( /\ lastCall'[2] = ":"
                   /\ old # <<>>
                   /\ Len(old[Len(old)]) = MaxParameters ) => new = old
      ]_vars

\* C12 witness: more than MaxParameters ';' were sent and then more than
\* MaxParameters ':': the Sequence holds MaxParameters groups and the last
\* group MaxParameters sub-values.
C12_Witness ==
    /\ lastCall = <<"param", ":">>
    /\ producer.sent = 2 * (MaxParameters + 1)
    /\ Len(sequence_.parameters) = MaxParameters
    /\ Len(sequence_.parameters[MaxParameters]) = MaxParameters
    /\ \A i \in 1..(MaxParameters - 1) : Len(sequence_.parameters[i]) = 1

RECURSIVE ParamAll(_, _)
\* param(b) for each byte of bytes, in order
ParamAll(st, bytes) ==
    IF bytes = <<>> THEN st ELSE ParamAll(Param(st, Head(bytes)), Tail(bytes))

\* The largest 32-bit unsigned value, 2^32 - 1
UInt32Max == Word32(HalfWord - 1, HalfWord - 1)

\* min(value * 10 + digit, 2^32 - 1): accumulation that saturates
SaturatingAccumulate(value, digit) ==
    LET lo == (value % HalfWord) * 10 + digit
        hi == ((value \div HalfWord) % HalfWord) * 10 + lo \div HalfWord
    IN  IF hi >= HalfWord THEN UInt32Max ELSE Word32(hi, lo % HalfWord)

RECURSIVE SaturatedValue(_, _)
\* min(decimal value of the first n digits of ds, 2^32 - 1)
SaturatedValue(ds, n) ==
    IF n = 0 THEN 0
    ELSE SaturatingAccumulate(SaturatedValue(ds, n - 1), DigitValue(ds[n]))

\* C13 as claimed: after clear() and param(b) for a run of digits the single
\* parameter holds min(decimal value of the digits, largest 32-bit value):
\* the accumulation saturates and does not wrap.
C13_DigitsSaturate ==
    \A ds \in DigitRuns :
        ParamAll(Clear(State), ds).sequence.parameters =
            << <<SaturatedValue(ds, Len(ds))>> >>

\* C14: putOSC(ch) either appends all the UTF-8 bytes of ch to the OSC
\* payload or none of them, the payload never grows beyond MaxOscLength
\* bytes, a character that would take it beyond is dropped, and no call is
\* made on the screen.
C14_OscPayloadBounded ==
    [][ lastCall'[1] = "putOSC" =>
          LET old == sequence_.intermediates
              new == sequence_'.intermediates
              ch == lastCall'[2]
          IN  /\ new = old \/ new = old \o Utf8(ch)
              /\ Len(new) <= MaxOscLength
              /\ Len(old) + Utf8Count(ch) > MaxOscLength => new = old
              /\ screen_' = <<>>
      ]_vars

\* C14 witness: a three-byte character has just been dropped whole from a
\* payload that had room for one byte of it.
C14_Witness ==
    /\ lastCall = <<"putOSC", "U+20AC">>
    /\ Len(sequence_.intermediates) = MaxOscLength - 2
    /\ producer.sent = MaxOscLength - 1
    /\ sequence_.intermediates = Repeat("x", MaxOscLength - 2)

RECURSIVE DecimalDigits(_)
\* The decimal digits of a 32-bit unsigned value
DecimalDigits(value) ==
    LET hi == (value \div HalfWord) % HalfWord
        lo == (hi % 10) * HalfWord + (value % HalfWord)
        quotient == Word32(hi \div 10, lo \div 10)
    IN  IF quotient = 0 THEN <<Digits[(lo % 10) + 1]>>
        ELSE Append(DecimalDigits(quotient), Digits[(lo % 10) + 1])

RECURSIVE StripZeros(_)
\* A run of digits without its leading zeros
StripZeros(ds) ==
    IF Len(ds) > 1 /\ Head(ds) = "0" THEN StripZeros(Tail(ds)) ELSE ds

\* C15 as claimed: when the accumulated OSC payload is <digits N>;<rest>,
\* dispatchOSC() hands on a Sequence whose single parameter is N and whose
\* intermediates are exactly <rest>, whatever N is.
C15_OscCodeAndRest ==
    producer.mode = "OSC_String" /\ producer.data = <<>> =>
        \A ds \in OscCodes, rest \in OscRests :
            sequence_.intermediates = ds \o <<";">> \o rest =>
                \A parsed \in parseOSCOutcomes(sequence_.intermediates) :
                    LET ready == PrepareOSC(State, parsed).sequence
                    IN  /\ Len(ready.parameters) = 1
                        /\ Len(ready.parameters[1]) = 1
                        /\ DecimalDigits(ready.parameters[1][1]) = StripZeros(ds)
                        /\ ready.intermediates = rest

\* The last entry point completed a Sequence that resolves to no function
UnknownDispatched(call, seq) ==
    call[1] \in {"dispatchESC", "dispatchCSI"} /\ functionDefinition(seq) = NoFunction

\* C16 as claimed: a completed Sequence that resolves to no known function
\* is reported to the logger and causes no screen operation.
C16_UnknownLogged ==
    UnknownDispatched(lastCall, sequence_) =>
        /\ \E i \in 1..Len(reports_) : reports_[i].sink = "logger_"
        /\ Effects(screen_) = <<>>

\* C16, what the code does: a completed Sequence that resolves to no known
\* function is reported on std::cerr and dropped: no call is made on the
\* screen, not even verifyState, and the batching flag, the batch queue and
\* the hooked parser are left as they were.
C16_UnknownDropped ==
    [][UnknownDispatched(lastCall', sequence_') =>
          /\ reports_' = <<UnknownSequenceReport>>
          /\ screen_' = <<>>
          /\ batching_' = batching_
          /\ batchedSequences_' = batchedSequences_
          /\ hookedParser_' = hookedParser_]_vars

\* C16 happens: an unknown CSI sequence is dispatched while batching is on
\* and the queue holds an entry.
C16_Witness ==
    /\ lastCall = <<"dispatchCSI", "~">>
    /\ batching_
    /\ batchedSequences_ # <<>>
    /\ reports_ = <<UnknownSequenceReport>>

\* apply ran in the last step: a Sequence of a known function other than the
\* set or reset of mode 2026 was dispatched and not queued
Applied(f, batching, call) ==
    /\ call[1] \in {"dispatchESC", "dispatchCSI"}
    /\ f # NoFunction
    /\ ~(batching /\ isBatchable(f))

\* C17: whenever apply(function, sequence) returns Invalid, no operation was
\* invoked on the screen during that call: the entry point that called it
\* makes no call on the screen but handleSequence's closing verifyState, and
\* nothing is queued.
C17_InvalidLeavesScreen ==
    [][LET f == functionDefinition(sequence_')
       IN  /\ Applied(f, batching_, lastCall')
           /\ ~containsParameter(sequence_', 2026)
           /\ ApplyResult(State, f, sequence_') = "Invalid"
           => /\ screen_' = <<VerifyState>>
              /\ batchedSequences_' = batchedSequences_
              /\ batching_' = batching_]_vars

\* C17 happens: EL with the scope 3, which it does not know, was dispatched
C17_Witness ==
    /\ lastCall = <<"dispatchCSI", "K">>
    /\ functionDefinition(sequence_) = "EL"
    /\ SeqParam(sequence_, 0) = 3
    /\ EL(sequence_).result = "Invalid"
    /\ screen_ = <<VerifyState>>

\* C18 as claimed: apply of DECSM or DECRM whose parameter is a mode number
\* that is not in the mapping table returns Invalid.
C18_UnmappedModeInvalid ==
    /\ lastCall[1] = "dispatchCSI"
    /\ functionDefinition(sequence_) \in {"DECSM", "DECRM"}
    /\ parameterCount(sequence_) = 1
    /\ toDECMode(SeqParam(sequence_, 0)) = nullopt
    => ApplyResult(State, functionDefinition(sequence_), sequence_) = "Invalid"

\* C18 happens: DECSM with the unmapped mode 8 was dispatched and applied;
\* no mode was set
C18_Witness ==
    /\ lastCall = <<"dispatchCSI", "h">>
    /\ sequence_.leader = "?"
    /\ sequence_.parameters = << <<8>> >>
    /\ ~batching_
    /\ screen_ = <<VerifyState>>

RECURSIVE RawSubParameters(_, _)
\* the loop of Sequence::raw over the sub-parameters k.. of a group
RawSubParameters(group, k) ==
    IF k > Len(group) THEN <<>>
    ELSE <<":">> \o DecimalDigits(group[k]) \o RawSubParameters(group, k + 1)

RECURSIVE RawParameters(_, _)
\* the loop of Sequence::raw over the parameter groups i.. (counted from 1)
RawParameters(parameters, i) ==
    IF i > Len(parameters) THEN <<>>
    ELSE (IF i > 1 THEN <<";">> ELSE <<>>)
            \o DecimalDigits(parameters[i][1])
            \o RawSubParameters(parameters[i], 2)
            \o RawParameters(parameters, i + 1)

\* Sequence::raw: the introducer of the category, the parameters unless
\* there is a single group whose first value is 0, the intermediates, the
\* final char, and the data string with its terminator. The leader is not
\* written.
Raw(seq) ==
    (CASE seq.category = "C0" -> <<>>
       [] seq.category = "ESC" -> <<"ESC">>
       [] seq.category = "CSI" -> <<"ESC", "[">>
       [] seq.category = "DCS" -> <<"ESC", "P">>
       [] seq.category = "OSC" -> <<"ESC", "]">>)
        \o (IF parameterCount(seq) > 1
               \/ (parameterCount(seq) = 1 /\ seq.parameters[1][1] # 0)
            THEN RawParameters(seq.parameters, 1)
            ELSE <<>>)
        \o seq.intermediates
        \o (IF seq.finalChar # NUL THEN <<seq.finalChar>> ELSE <<>>)
        \o (IF seq.dataString # <<>> THEN seq.dataString \o <<"ESC", "\\">> ELSE <<>>)

\* A sequencer as constructed
Constructed ==
    [sequence |-> InitialSequence, batching |-> FALSE, queue |-> <<>>,
     hooked |-> NoParser, screen |-> <<>>, reports |-> <<>>, counter |-> 0]

\* The reference producer on the bytes of one ESC or CSI sequence: the
\* Sequence a sequencer as constructed assembles from them
Reparse(bytes) ==
    IF Len(bytes) > 2 /\ bytes[1] = "ESC" /\ bytes[2] = "["
    THEN Send(Constructed, Item("CSI", SubSeq(bytes, 3, Len(bytes)), <<>>)).sequence
    ELSE Send(Constructed, Item("ESC", Tail(bytes), <<>>)).sequence

\* C19 as claimed: feeding S.raw() through the reference producer into the
\* assembler yields a Sequence equal to S in category, leader, parameters,
\* intermediates, final char and data string; S is the CSI or ESC sequence
\* just assembled.
C19_RawRoundTrip ==
    lastCall[1] \in {"dispatchESC", "dispatchCSI"} =>
        Reparse(Raw(sequence_)) = sequence_

\* C19 happens: CSI ? 8 h was assembled; raw() of it is ESC [ 8 h
C19_Witness ==
    /\ lastCall = <<"dispatchCSI", "h">>
    /\ sequence_.leader = "?"
    /\ Raw(sequence_) = <<"ESC", "[", "8", "h">>
    /\ Reparse(Raw(sequence_)).leader = NUL

\* The index of the first byte b of bytes, 0 when there is none
FirstIndex(bytes, b) ==
    IF \E i \in 1..Len(bytes) : bytes[i] = b
    THEN CHOOSE i \in 1..Len(bytes) :
            bytes[i] = b /\ \A j \in 1..(i - 1) : bytes[j] # b
    ELSE 0

\* The part of a message before its first ';'
HeaderPart(input) ==
    IF FirstIndex(input, ";") = 0 THEN input
    ELSE SubSeq(input, 1, FirstIndex(input, ";") - 1)

\* The first n bytes of bytes, all of them when there are fewer
Truncated(bytes, n) == SubSeq(bytes, 1, IF Len(bytes) < n THEN Len(bytes) ELSE n)

RECURSIVE Declarations(_)
\* The header declarations of the header part: the pieces between ',' with
\* a key, each split at its first '=', key and value as far as the caps of
\* the parser go
Declarations(part) ==
    LET comma == FirstIndex(part, ",")
        piece == IF comma = 0 THEN part ELSE SubSeq(part, 1, comma - 1)
        eq == FirstIndex(piece, "=")
        key == Truncated(IF eq = 0 THEN piece ELSE SubSeq(piece, 1, eq - 1),
                         MaxKeyLength)
        value == Truncated(IF eq = 0 THEN <<>> ELSE SubSeq(piece, eq + 1, Len(piece)),
                           MaxValueLength)
        rest == IF comma = 0 THEN <<>>
                ELSE Declarations(SubSeq(part, comma + 1, Len(part)))
    IN  IF part = <<>> THEN <<>>
        ELSE IF key = <<>> THEN rest
        ELSE <<Header(key, value)>> \o rest

\* The declarations of a key in the input, in the order of the input
DeclarationsOf(input, key) ==
    SelectSeq(Declarations(HeaderPart(input)), LAMBDA d : d.key = key)

\* C20: in every Message the parser gives its finalizer each header key
\* appears at most once, no key contains ',', ';' or '=', and the value of a
\* key is the one of its last declaration in the input.
C20_UniqueKeysLastWins ==
    message_.given =>
        /\ \A i, j \in 1..Len(message_.headers) :
              i # j => message_.headers[i].key # message_.headers[j].key
        /\ \A i \in 1..Len(message_.headers) :
              LET h == message_.headers[i]
                  ds == DeclarationsOf(feed.passed, h.key)
              IN  /\ h.key # <<>>
                  /\ \A k \in 1..Len(h.key) : h.key[k] \notin {",", ";", "="}
                  /\ ds # <<>>
                  /\ h.value = Stored(ds[Len(ds)].value)

\* C20 happens: the input a=x,a=y declares the key a twice and the Message
\* holds a once, with the value y
C20_Witness ==
    /\ message_.given
    /\ feed.passed = <<"a", "=", "x", ",", "a", "=", "y">>
    /\ message_.headers = <<Header(<<"a">>, <<"y">>)>>

RECURSIVE RawKeys(_)
\* The distinct non-empty keys of the header part, as the input spells them
RawKeys(part) ==
    LET comma == FirstIndex(part, ",")
        piece == IF comma = 0 THEN part ELSE SubSeq(part, 1, comma - 1)
        eq == FirstIndex(piece, "=")
        key == IF eq = 0 THEN piece ELSE SubSeq(piece, 1, eq - 1)
        rest == IF comma = 0 THEN {}
                ELSE RawKeys(SubSeq(part, comma + 1, Len(part)))
    IN  IF part = <<>> THEN {}
        ELSE IF key = <<>> THEN rest
        ELSE {key} \cup rest

\* The distinct keys of the declarations of the input, as far as the cap of
\* the key goes
DeclaredKeys(input) ==
    LET ds == Declarations(HeaderPart(input))
    IN  { ds[i].key : i \in 1..Len(ds) }

\* C21 as stated: a header is committed exactly when its key is not empty, so
\* the Message has as many headers as the input has distinct non-empty keys.
C21_CountIsDistinctKeys ==
    message_.given =>
        Len(message_.headers) = Cardinality(RawKeys(HeaderPart(feed.passed)))

\* C21 as amended: the keys of the Message are declared non-empty keys of the
\* input, cut at MaxKeyLength, and the Message has as many headers as the
\* input has such keys, up to MaxParamCount; commas alone and declarations
\* without a key add none, and a key without a value has the empty value.
C21_CountIsDistinctKeysUpToCaps ==
    message_.given =>
        LET keys == DeclaredKeys(feed.passed)
        IN  /\ \A i \in 1..Len(message_.headers) :
                  /\ message_.headers[i].key \in keys
                  /\ message_.headers[i].key # <<>>
            /\ Len(message_.headers) =
                  IF Cardinality(keys) < MaxParamCount
                  THEN Cardinality(keys) ELSE MaxParamCount
            /\ \A i \in 1..Len(message_.headers) :
                  LET ds == DeclarationsOf(feed.passed, message_.headers[i].key)
                  IN  ds[Len(ds)].value = <<>> => message_.headers[i].value = <<>>

\* C21 happens: ,foo=text,,,bar=other, has commas before, between and after
\* two declarations and the Message has the two headers
C21_Witness ==
    /\ message_.given
    /\ feed.passed = <<",", "f", "o", "o", "=", "t", "e", "x", "t", ",", ",", ",",
                       "b", "a", "r", "=", "o", "t", "h", "e", "r", ",">>
    /\ message_.headers = <<Header(<<"f", "o", "o">>, <<"t", "e", "x", "t">>),
                            Header(<<"b", "a", "r">>, <<"o", "t", "h", "e", "r">>)>>

\* The part of a message after its first ';', empty when it has none
BodyPart(input) ==
    IF FirstIndex(input, ";") = 0 THEN <<>>
    ELSE SubSeq(input, FirstIndex(input, ";") + 1, Len(input))

\* C22: only the first ';' of a message is significant. Once it is passed
\* the parser is in BodyStart or Body for the rest of the message, every byte
\* after it is in the body, unchanged and in the order of the input, and the
\* headers declared before it are committed with no header pending; without
\* a ';' the body stays empty, and so a Message with a body had a ';'.
C22_FirstSemicolonOnly ==
    /\ feed.mode = "passing" =>
          IF FirstIndex(feed.passed, ";") # 0
          THEN /\ messageParser_.state \in {"BodyStart", "Body"}
               /\ messageParser_.state = "BodyStart" <=> BodyPart(feed.passed) = <<>>
               /\ messageParser_.body = Truncated(BodyPart(feed.passed), MaxBodyLength)
               /\ messageParser_.parsedKey = <<>>
               /\ messageParser_.parsedValue = <<>>
               /\ messageParser_.headers = FlushHeader(messageParser_).headers
               /\ \A key \in DeclaredKeys(feed.passed) :
                     \/ HasKey(messageParser_.headers, key)
                     \/ Len(messageParser_.headers) = MaxParamCount
          ELSE /\ messageParser_.state \in {"ParamKey", "ParamValue"}
               /\ messageParser_.body = <<>>
    /\ message_.given /\ message_.body # <<>> => FirstIndex(feed.passed, ";") # 0

\* C22 happens: in a;;,=b the bytes ; , = b follow the first ';' and are the
\* body, and the header a is committed
C22_Witness ==
    /\ feed.mode = "passing"
    /\ feed.passed = <<"a", ";", ";", ",", "=", "b">>
    /\ messageParser_.state = "Body"
    /\ messageParser_.body = <<";", ",", "=", "b">>
    /\ messageParser_.headers = <<Header(<<"a">>, <<>>)>>

\* The state the separators of the input put the parser in, whatever the
\* lengths of the keys and values between them
StateAfter(input) ==
    LET part == HeaderPart(input)
        commas == { i \in 1..Len(part) : part[i] = "," }
        last == IF commas = {} THEN 0
                ELSE CHOOSE i \in commas : \A j \in commas : j <= i
    IN  IF FirstIndex(input, ";") # 0
        THEN IF BodyPart(input) = <<>> THEN "BodyStart" ELSE "Body"
        ELSE IF \E i \in (last + 1)..Len(part) : part[i] = "="
        THEN "ParamValue"
        ELSE "ParamKey"

C23_WitnessValue ==
    /\ message_.given
    /\ feed.passed = <<"a", "=">> \o Repeat("v", MaxValueLength + ExtraBytes) \o <<",", "b">>
    /\ message_.headers = <<Header(<<"a">>, Repeat("v", 512)), Header(<<"b">>, <<>>)>>

\* C23 happens for the headers: of more than 32 keys the first 32 are stored
C23_WitnessCount ==
    /\ message_.given
    /\ Cardinality(RawKeys(HeaderPart(feed.passed))) > 32
    /\ Len(message_.headers) = 32
    /\ message_.headers[1] = Header(Key(0), <<"x">>)

\* C24: the value of a header whose declared value starts with '!' is the
\* base64 decoding of what follows the '!' (its encoding gives the declared
\* characters back), or what follows the '!' as it is when that is not
\* base64; a declared value that does not start with '!' is stored as it is.
C24_Base64Values ==
    message_.given =>
        \A i \in 1..Len(message_.headers) :
            LET h == message_.headers[i]
                ds == DeclarationsOf(feed.passed, h.key)
                declared == ds[Len(ds)].value
            IN  IF declared # <<>> /\ declared[1] = "!"
                THEN IF Base64Valid(Tail(declared))
                     THEN Base64Encode(h.value) = Tail(declared)
                     ELSE h.value = Tail(declared)
                ELSE h.value = declared

\* C24 happens: name=!GwAH gives the header name the bytes ESC NUL BEL
C24_Witness ==
    /\ message_.given
    /\ feed.passed = <<"n", "a", "m", "e", "=", "!", "G", "w", "A", "H">>
    /\ message_.headers = <<Header(<<"n", "a", "m", "e">>, <<"0x1b", "0x00", "0x07">>)>>

\* C24 happens with separators in the value: !LDs= gives the value ",;"
C24_WitnessSeparators ==
    /\ message_.given
    /\ feed.passed = <<"n", "=", "!", "L", "D", "s", "=", ",", "m", "=", "x">>
    /\ message_.headers = <<Header(<<"n">>, <<",", ";">>), Header(<<"m">>, <<"x">>)>>

\* C24 happens with data that is not base64: !ab gives the value ab
C24_WitnessFailure ==
    /\ message_.given
    /\ feed.passed = <<"n", "=", "!", "a", "b">>
    /\ message_.headers = <<Header(<<"n">>, <<"a", "b">>)>>

\* C25: the Message a parser hooked to the VT parser hands over at unhook has
\* the decoding of the body when the body of the string starts with '!' and
\* base64 follows, and the body of the string as it is when it does not start
\* with '!'.
C25_BodyDelivered ==
    feed.mode = "done" =>
        LET body == BodyPart(feed.passed)
        IN  /\ message_.given
            /\ IF body # <<>> /\ body[1] = "!"
               THEN Base64Valid(Tail(body)) => Base64Encode(message_.body) = Tail(body)
               ELSE message_.body = body

\* C25 happens: the string a=foo,b=bar;!YWJj was put and unhooked, and the
\* Message has the headers a=foo and b=bar and the body abc
C25_Witness ==
    /\ feed.mode = "done"
    /\ feed.passed = <<"a", "=", "f", "o", "o", ",", "b", "=", "b", "a", "r", ";",
                       "!", "Y", "W", "J", "j">>
    /\ message_.headers = <<Header(<<"a">>, <<"f", "o", "o">>),
                            Header(<<"b">>, <<"b", "a", "r">>)>>
    /\ message_.body = <<"a", "b", "c">>

\* C25 happens for a body without '!': ;foo gives the body foo
C25_WitnessVerbatim ==
    /\ feed.mode = "done"
    /\ feed.passed = <<";", "f", "o", "o">>
    /\ message_.body = <<"f", "o", "o">>

\* MessageParser::finalize is taking place
Finalizing == feed.mode = "passing" /\ feed'.mode = "done"

UnhookingUpload == hookedParser_.kind = "GoodImageUpload" /\ lastCall'[1] = "unhook"

\* The value the string declares last for the key, as it is stored, in a
\* sequence of one; the empty sequence when the key is not declared
Declared(input, key) ==
    LET ds == DeclarationsOf(input, key)
    IN  IF ds = <<>> THEN <<>> ELSE <<Stored(ds[Len(ds)].value)>>

\* The name, the format and the body of an uploadImage call
UploadName(call) == SubSeq(call.s, 2, 1 + call.n[3])

UploadBody(call) == SubSeq(call.s, 2 + call.n[3], Len(call.s))

\* C27 as stated: when the string a=foo,b=bar;!YWJj was put to the parser of
\* the image upload, unhook calls uploadImage with the body abc.
C27_UploadCalled ==
    [][UnhookingUpload
         /\ hookedParser_.data = <<"a", "=", "f", "o", "o", ",", "b", "=", "b", "a", "r",
                                   ";", "!", "Y", "W", "J", "j">>
       => \E i \in 1..Len(screen_') :
            /\ screen_'[i].op = "uploadImage"
            /\ UploadBody(screen_'[i]) = <<"a", "b", "c">>
      ]_vars

\* C27 as amended: at unhook uploadImage is called exactly when the string
\* declares the name n and a format and size that go together (f=3 with no
\* size, or f absent, 1 or 2 with a width and a height that are not 0); the
\* call has the value of n as the name and the body of the string, decoded
\* when it is base64 after a '!'. A string without n, such as
\* a=foo,b=bar;!YWJj, makes no call.
C27_UploadCalledWithName ==
    [][UnhookingUpload =>
         LET d == hookedParser_.data
             name == Declared(d, <<"n">>)
             format == toImageFormat(Declared(d, <<"f">>))
             width == toNumber(Declared(d, <<"w">>), 0)
             height == toNumber(Declared(d, <<"h">>), 0)
             sized == width # 0 /\ height # 0
             unsized == width = 0 /\ height = 0
             body == BodyPart(d)
         IN  IF /\ name # <<>>
                /\ \/ format = "PNG" /\ unsized
                   \/ format \in {"RGB", "RGBA"} /\ sized
             THEN /\ Len(screen_') = 1
                  /\ screen_'[1].op = "uploadImage"
                  /\ screen_'[1].s[1] = format
                  /\ screen_'[1].n = <<width, height, Len(name[1])>>
                  /\ UploadName(screen_'[1]) = name[1]
                  /\ IF body # <<>> /\ body[1] = "!"
                     THEN Base64Valid(Tail(body)) =>
                            Base64Encode(UploadBody(screen_'[1])) = Tail(body)
                     ELSE UploadBody(screen_'[1]) = body
             ELSE screen_' = <<>>
      ]_vars

\* C27 happens: the string n=foo,f=3;!YWJj was unhooked and uploadImage was
\* called with the name foo, the format PNG, no size and the body abc
C27_Witness ==
    /\ lastCall = <<"unhook", NUL>>
    /\ hookedParser_ = NoParser
    /\ screen_ = <<Call("uploadImage", <<"PNG", "f", "o", "o", "a", "b", "c">>, <<0, 0, 3>>)>>

\* The iterations of impl::dispatchSGR over a Sequence
SgrIterations(seq) == SgrLoop(seq, 0, MaxIterations)

\* A read of a group at or beyond parameterCount, or of a sub-parameter at
\* or beyond the subParameterCount of its group
Absent(seq, read) ==
    \/ read.group >= parameterCount(seq)
    \/ read.sub >= 0 /\ read.sub >= subParameterCount(seq, read.group)

\* An SGR sequence was dispatched in the last step
DispatchedSGR ==
    /\ lastCall = <<"dispatchCSI", "m">>
    /\ functionDefinition(sequence_) = "SGR"

\* C28 as claimed: for every SGR parameter list of up to 16 groups the loop
\* of dispatchSGR ends, the group index is strictly greater on every
\* iteration than on the one before, and while a color argument of 38, 48
\* or 58 is decoded no group and no sub-parameter is read at or beyond its
\* count.
C28_SgrReadsPresent ==
    DispatchedSGR =>
        LET its == SgrIterations(sequence_)
        IN  /\ Len(its) < MaxIterations
            /\ \A k \in 1..(Len(its) - 1) : its[k + 1].at > its[k].at
            /\ \A k \in 1..Len(its) :
                    SeqParam(sequence_, its[k].at) \in {38, 48, 58}
                    => \A r \in 1..Len(its[k].reads) :
                            ~Absent(sequence_, its[k].reads[r])

\* The part of C28 that holds: the loop ends, the group index is strictly
\* greater on every iteration, and no group at or beyond parameterCount is
\* read.
C28_SgrTerminates ==
    DispatchedSGR =>
        LET its == SgrIterations(sequence_)
        IN  /\ Len(its) < MaxIterations
            /\ \A k \in 1..(Len(its) - 1) : its[k + 1].at > its[k].at
            /\ \A k \in 1..Len(its) : \A r \in 1..Len(its[k].reads) :
                    its[k].reads[r].group < parameterCount(sequence_)

\* C28 happens: CSI 38:5 m was dispatched, and the color index was read
\* from a sub-parameter the group does not have
C28_Witness ==
    /\ DispatchedSGR
    /\ sequence_.parameters = << <<38, 5>> >>
    /\ screen_ = <<Call("setForegroundColor", <<"IndexedColor">>, <<0>>), VerifyState>>

\* The sub-parser Sequencer::hook instantiates for a function
SubParsers ==
    { <<"DECSIXEL", "SixelParser">>, <<"DECRQSS", "SimpleStringCollector">>,
      <<"GIUPLOAD", "GoodImageUpload">>, <<"GIRENDER", "GoodImageRender">>,
      <<"GIDELETE", "GoodImageRelease">>, <<"GIONESHOT", "GoodImageOneshot">> }

C29_WitnessSecondUnhook ==
    /\ lastCall[1] = "unhook"
    /\ functionDefinition(sequence_) = "DECSIXEL"
    /\ ~batching_
    /\ screen_ = <<>>
    /\ hookedParser_ = NoParser

\* C30 as claimed: after an operation is applied to the screen (a sequence
\* applied directly, a print, a C0 executed directly, an entry replayed by
\* the flush) verifyState is called before the next operation is applied:
\* an entry point that made calls on the screen made verifyState its last
\* call, and every character written, directly or replayed by the flush, is
\* followed at once by verifyState.
C30_VerifiedAfterApplication ==
    /\ Effects(screen_) # <<>> => screen_[Len(screen_)] = VerifyState
    /\ \A i \in 1..Len(screen_) :
            screen_[i].op = "writeText"
            => i < Len(screen_) /\ screen_[i + 1] = VerifyState

\* The part of C30 that holds: handleSequence of a CSI or ESC sequence of a
\* known function calls verifyState once, as its last call on the screen.
C30_SequenceVerified ==
    (lastCall[1] \in {"dispatchESC", "dispatchCSI"}
     /\ functionDefinition(sequence_) # NoFunction)
    => /\ screen_ # <<>>
       /\ screen_[Len(screen_)] = VerifyState
       /\ Len(SelectSeq(screen_, LAMBDA c : c = VerifyState)) = 1

\* C30 fails: a character was printed with batching off, and verifyState
\* was not called
C30_WitnessPrint ==
    /\ lastCall = <<"print", "a">>
    /\ screen_ = <<Call("writeText", <<"a">>, <<>>)>>

\* C30 fails: the flush replayed two characters with no verifyState between
\* them
C30_WitnessFlush ==
    /\ lastCall[1] = "dispatchCSI"
    /\ IsReset2026(sequence_)
    /\ \E i \in 1..(Len(screen_) - 1) :
            screen_[i].op = "writeText" /\ screen_[i + 1].op = "writeText"

\* The calls the flush makes for the entries before entry i of a queue
CallsBefore(q, i) == ReplayCalls(SubSeq(q, 1, i - 1))

\* C31: the unhook of a sixel string gives the screen the image at once when
\* batching is off and leaves the queue as it was; when batching is on it
\* makes no call and appends the image to the queue, and the flush gives the
\* screen every queued image right after the calls of the entries queued
\* before it.
C31_ImageNowOrQueued ==
    [][ /\ (lastCall'[1] = "unhook" /\ hookedParser_.kind = "SixelParser")
            => IF batching_
               THEN /\ screen_' = <<>>
                    /\ batchedSequences_'
                            = Append(batchedSequences_, ImageEntry(hookedParser_.data))
               ELSE /\ screen_' = <<Call("sixelImage", hookedParser_.data, <<>>)>>
                    /\ batchedSequences_' = batchedSequences_
        /\ (lastCall'[1] = "dispatchCSI" /\ IsReset2026(sequence_'))
            => \A i \in 1..Len(batchedSequences_) :
                    batchedSequences_[i].kind = "SixelImage"
                    => LET at == Len(CallsBefore(batchedSequences_, i)) + 1
                       IN  /\ at <= Len(Effects(screen_'))
                           /\ Effects(screen_')[at]
                                = Call("sixelImage", batchedSequences_[i].rgba, <<>>)
      ]_vars

\* C31 happens: the flush has replayed a print, then an image, then a
\* cursor move, as they were queued
C31_Witness ==
    /\ lastCall[1] = "dispatchCSI"
    /\ IsReset2026(sequence_)
    /\ \E k \in 1..(Len(Effects(screen_)) - 2) :
        /\ Effects(screen_)[k].op = "writeText"
        /\ Effects(screen_)[k + 1] = Call("sixelImage", <<"x">>, <<>>)
        /\ Effects(screen_)[k + 2].op = "moveCursorTo"

\* C31 happens: the unhook of a sixel string with batching on queued the
\* image behind a print and made no call on the screen
C31_WitnessQueued ==
    /\ lastCall[1] = "unhook"
    /\ batching_
    /\ screen_ = <<>>
    /\ Len(batchedSequences_) >= 2
    /\ batchedSequences_[Len(batchedSequences_) - 1].kind = "char"
    /\ batchedSequences_[Len(batchedSequences_)] = ImageEntry(<<"x">>)

\* C32: no entry point decreases the instruction counter, whatever the
\* order of print, execute, dispatch, hook and the flush.
C32_CounterMonotonic ==
    [][instructionCounter_' >= instructionCounter_]_vars

\* C32 happens: mode 2026 was set, two characters were printed into the
\* queue, and the reset of 2026 flushed them: the counter stands at the two
\* dispatches and the two prints the flush replayed
C32_Witness ==
    /\ lastCall[1] = "dispatchCSI"
    /\ IsReset2026(sequence_)
    /\ Len(SelectSeq(screen_, LAMBDA c : c.op = "writeText")) = 2
    /\ instructionCounter_ = 4

\* C32 happens: a hook has counted
C32_WitnessHook ==
    /\ lastCall[1] = "hook"
    /\ instructionCounter_ = MaxInstructions

\* Iteration k of the loop decodes a color argument in the legacy form
\* 38;2;r;g;b (or 48, 58) that a further group follows, and a channel of it
\* is greater than 255
LegacyRgbOutOfRange(seq, its, k) ==
    LET i == its[k].at
    IN  /\ SeqParam(seq, i) \in {38, 48, 58}
        /\ subParameterCount(seq, i) = 0
        /\ SeqParam(seq, i + 1) = 2
        /\ i + 5 < parameterCount(seq)
        /\ \E c \in 2..4 : ~InByte(SeqParam(seq, i + c))

\* C33 as claimed: an SGR color argument 38;2;r;g;b (or 48, 58) with a
\* channel greater than 255 sets no RGB color, and the next group processed
\* is the one after b.
C33_OutOfRangeAdvances ==
    DispatchedSGR =>
        LET its == SgrIterations(sequence_)
        IN  \A k \in 1..Len(its) :
                LegacyRgbOutOfRange(sequence_, its, k)
                => /\ \A c \in 1..Len(its[k].calls) :
                            its[k].calls[c].s[1] # "RGBColor"
                   /\ k < Len(its)
                   /\ its[k + 1].at = its[k].at + 5

\* The part of C33 that holds: no RGB color is set; the screen gets the
\* undefined Color instead
C33_OutOfRangeDiscarded ==
    DispatchedSGR =>
        LET its == SgrIterations(sequence_)
        IN  \A k \in 1..Len(its) :
                LegacyRgbOutOfRange(sequence_, its, k)
                => /\ Len(its[k].calls) = 1
                   /\ its[k].calls[1].s = <<"Undefined">>

\* C33 fails: CSI 38;2;256;0;0;1 m was dispatched and the screen got the
\* undefined Color and nothing for the 1 that follows
C33_Witness ==
    /\ DispatchedSGR
    /\ sequence_.parameters = << <<38>>, <<2>>, <<256>>, <<0>>, <<0>>, <<1>> >>
    /\ screen_ = <<Call("setForegroundColor", <<"Undefined">>, <<>>), VerifyState>>

\* The screen operation of the color codes of SGR
ColorOperation(v) ==
    CASE v = 38 -> "setForegroundColor"
      [] v = 48 -> "setBackgroundColor"
      [] v = 58 -> "setUnderlineColor"

\* The RGB color argument iteration k decodes, as the claim reads it: the
\* channels and the number of groups of the argument, or none when the
\* iteration is at no such argument. The forms are 38;2;r;g;b, 38:2:r:g:b
\* and 38:2:cs:r:g:b
RgbArgument(seq, i) ==
    LET group == seq.parameters[i + 1]
        rgb ==
            CASE Len(group) = 1 /\ SeqParam(seq, i + 1) = 2 /\ i + 4 < parameterCount(seq)
                    /\ subParameterCount(seq, i + 1) = 0 ->
                    << <<SeqParam(seq, i + 2), SeqParam(seq, i + 3), SeqParam(seq, i + 4)>>, 5 >>
              [] Len(group) = 5 /\ group[2] = 2 -> << <<group[3], group[4], group[5]>>, 1 >>
              [] Len(group) = 6 /\ group[2] = 2 -> << <<group[4], group[5], group[6]>>, 1 >>
              [] OTHER -> << <<>>, 0 >>
    IN  IF SeqParam(seq, i) \in {38, 48, 58} /\ rgb[1] # <<>>
           /\ \A c \in 1..3 : InByte(rgb[1][c])
        THEN rgb
        ELSE << <<>>, 0 >>

\* C34 as claimed: for r, g, b in 0..255 each of the forms 38;2;r;g;b,
\* 38:2:r:g:b and 38:2:cs:r:g:b gives the screen setForegroundColor of the
\* RGB color (48: background, 58: underline), and the group after the color
\* argument is the next one processed.
C34_RgbForms ==
    DispatchedSGR =>
        LET its == SgrIterations(sequence_)
        IN  \A k \in 1..Len(its) :
                LET i == its[k].at
                    arg == RgbArgument(sequence_, i)
                IN  arg[1] # <<>>
                    => /\ its[k].calls
                            = <<Call(ColorOperation(SeqParam(sequence_, i)),
                                     <<"RGBColor">>, arg[1])>>
                       /\ i + arg[2] < parameterCount(sequence_)
                            => k < Len(its) /\ its[k + 1].at = i + arg[2]

\* The part of C34 that holds: the form 38;2;r;g;b, and the form 38:2:r:g:b
\* when no group follows it.
C34_RgbLegacyForm ==
    DispatchedSGR =>
        LET its == SgrIterations(sequence_)
        IN  \A k \in 1..Len(its) :
                LET i == its[k].at
                    arg == RgbArgument(sequence_, i)
                IN  (arg[1] # <<>> /\ Len(sequence_.parameters[i + 1]) \in {1, 5})
                    => /\ its[k].calls
                            = <<Call(ColorOperation(SeqParam(sequence_, i)),
                                     <<"RGBColor">>, arg[1])>>
                       /\ (Len(sequence_.parameters[i + 1]) = 1
                            /\ i + arg[2] < parameterCount(sequence_))
                            => k < Len(its) /\ its[k + 1].at = i + arg[2]

\* C34 fails: CSI 38:2:0:10:20:30 m was dispatched and the screen got the
\* undefined Color
C34_WitnessColorSpace ==
    /\ DispatchedSGR
    /\ sequence_.parameters = << <<38, 2, 0, 10, 20, 30>> >>
    /\ screen_ = <<Call("setForegroundColor", <<"Undefined">>, <<>>), VerifyState>>

\* C34 fails: CSI 38:2:10:20:30;1 m was dispatched, the screen got the RGB
\* color and nothing for the 1 that follows
C34_WitnessSkipped ==
    /\ DispatchedSGR
    /\ sequence_.parameters = << <<38, 2, 10, 20, 30>>, <<1>> >>
    /\ screen_ = <<Call("setForegroundColor", <<"RGBColor">>, <<10, 20, 30>>), VerifyState>>

\* The cursor motion functions of one parameter and their screen operation
CursorOperations ==
    { <<"CUU", "moveCursorUp">>, <<"CUD", "moveCursorDown">>,
      <<"CUF", "moveCursorForward">>, <<"CUB", "moveCursorBackward">>,
      <<"CNL", "moveCursorToNextLine">>, <<"CPL", "moveCursorToPrevLine">>,
      <<"CHA", "moveCursorToColumn">>, <<"VPA", "moveCursorToLine">>,
      <<"HPA", "moveCursorToColumn">>, <<"HPR", "moveCursorForward">> }

\* Parameter i of the Sequence, with 1 for a group that is absent
OrOne(seq, i) == IF i < parameterCount(seq) THEN SeqParam(seq, i) ELSE 1

\* A CSI sequence of function f was dispatched in the last step and applied
DispatchedFunction(fs) ==
    /\ lastCall[1] = "dispatchCSI"
    /\ functionDefinition(sequence_) \in fs
    /\ ~batching_

\* The functions of CursorOperations but for those in the set: each uses 1
\* for its parameter when it is absent; CUP and HVP use 1 for each of their
\* two parameters that is absent, and HVP makes the call CUP makes.
CursorDefaults(but) ==
    /\ \A co \in CursorOperations :
            (co[1] \notin but /\ DispatchedFunction({co[1]})
             /\ parameterCount(sequence_) = 0)
            => screen_ = <<Call(co[2], <<>>, <<1>>), VerifyState>>
    /\ DispatchedFunction({"CUP", "HVP"})
        => /\ Len(screen_) = 2
           /\ screen_[1].op = "moveCursorTo"
           /\ \A i \in 0..1 :
                i >= parameterCount(sequence_) => screen_[1].n[i + 1] = 1
           /\ <<screen_[1]>> = FunctionCalls("CUP", sequence_)
           /\ <<screen_[1]>> = FunctionCalls("HVP", sequence_)

\* C35 as claimed: every function of the cursor motion family uses 1 for
\* each parameter that is absent, and HVP makes the screen call CUP makes
\* for every pair of parameters.
C35_CursorDefaults == CursorDefaults({})

\* The part of C35 that holds: the same for all of the family but HPA and
\* HPR.
C35_CursorDefaultsButHpaHpr == CursorDefaults({"HPA", "HPR"})

\* C35 fails: HPA with no parameter was dispatched and the screen was told
\* to move to column 0
C35_Witness ==
    /\ DispatchedFunction({"HPA"})
    /\ parameterCount(sequence_) = 0
    /\ screen_ = <<Call("moveCursorToColumn", <<>>, <<0>>), VerifyState>>

\* C35 holds for HVP: with the first parameter alone it moves to (5, 1)
C35_WitnessHvp ==
    /\ DispatchedFunction({"HVP"})
    /\ parameterCount(sequence_) = 1
    /\ screen_ = <<Call("moveCursorTo", <<>>, <<5, 1>>), VerifyState>>

\* C36 as claimed: execute(c0) while a CSI sequence is assembled leaves the
\* Sequence as it was (category, leader, parameters, intermediates and
\* final char), batching on or off.
C36_ExecuteKeepsSequence ==
    [][ (lastCall'[1] = "execute" /\ producer.mode = "CSI")
          => sequence_' = sequence_ ]_vars

\* The part of C36 that holds: the same with batching off.
C36_ExecuteKeepsSequenceUnbatched ==
    [][ (lastCall'[1] = "execute" /\ producer.mode = "CSI" /\ ~batching_)
          => sequence_' = sequence_ ]_vars

\* C36 fails: with batching on, BEL was executed after the first bytes of a
\* CSI sequence, and the Sequence is now the C0 Sequence of BEL
C36_Witness ==
    /\ lastCall = <<"execute", "BEL">>
    /\ batching_
    /\ producer.mode = "CSI"
    /\ producer.sent > 0
    /\ sequence_ = C0Sequence("BEL")

\* C36 holds with batching off: BEL was executed after the first bytes of a
\* CSI sequence, which the Sequence still holds
C36_WitnessUnbatched ==
    /\ lastCall = <<"execute", "BEL">>
    /\ ~batching_
    /\ producer.mode = "CSI"
    /\ sequence_.parameters # <<>>
    /\ screen_ = <<Call("bell", <<>>, <<>>)>>

\* With batching on and the producer between sequences: each code of the set
\* is executed, which queues it, and the reset of 2026 that follows gives the
\* screen, right after the calls of the entries queued before it, the call
\* execute makes for the code when batching is off.
ControlsDelayed(codes) ==
    (batching_ /\ producer.mode = "Ground") =>
        \A c0 \in codes :
            LET flushed == Send(ExecuteControlFunction(State, c0), Reset2026Item)
                eff == Effects(flushed.screen)
                n == Len(ReplayCalls(batchedSequences_))
            IN  /\ Len(eff) > n
                /\ <<eff[n + 1]>> = ControlCalls(c0)

\* C37 as claimed: for each of the codes 0x07, 0x08, 0x09, 0x0A, 0x0B, 0x0C,
\* 0x0D, 0x37 and 0x38, execute while batching is on followed by the flush
\* makes the screen operation execute makes when batching is off.
C37_ControlsDelayed == ControlsDelayed(C0Codes)

\* The part of C37 that holds: the same for the codes 0x07 to 0x0D.
C37_ControlsDelayedButCursor == ControlsDelayed(C0Codes \ {"7", "8"})

\* C37 holds for BEL: it was executed with batching on, and the reset of
\* 2026 has rung the bell
C37_Witness ==
    /\ lastCall[1] = "dispatchCSI"
    /\ IsReset2026(sequence_)
    /\ HasCall(screen_, "bell")

\* C37 fails for 0x37: with batching on its Sequence is no function, nothing
\* is queued for it, and the flush makes no call for it
C37_WitnessDropped ==
    /\ batching_
    /\ producer.mode = "Ground"
    /\ ExecuteControlFunction(State, "7").queue = batchedSequences_
    /\ ControlCalls("7") = <<Call("saveCursor", <<>>, <<>>)>>
    /\ ~HasCall(Send(ExecuteControlFunction(State, "7"), Reset2026Item).screen,
                "saveCursor")

\* Iteration at index i decodes a color argument in the legacy indexed form
\* 38;5;n (or 48, 58)
LegacyIndexed(seq, i) ==
    /\ SeqParam(seq, i) \in {38, 48, 58}
    /\ subParameterCount(seq, i) = 0
    /\ SeqParam(seq, i + 1) = 5
    /\ i + 2 < parameterCount(seq)

\* In the legacy indexed form an index of at most 255 gives the screen that
\* indexed color; with reject, a greater index gives it no indexed color.
IndexedColors(reject) ==
    DispatchedSGR =>
        LET its == SgrIterations(sequence_)
        IN  \A k \in 1..Len(its) :
                LET i == its[k].at
                    n == SeqParam(sequence_, i + 2)
                IN  LegacyIndexed(sequence_, i)
                    => IF InByte(n)
                       THEN its[k].calls
                                = <<Call(ColorOperation(SeqParam(sequence_, i)),
                                         <<"IndexedColor">>, <<n>>)>>
                       ELSE reject
                            => \A c \in 1..Len(its[k].calls) :
                                    its[k].calls[c].s[1] # "IndexedColor"

\* C38 as claimed: 38;5;n (and 48, 58) selects the indexed color n only
\* when n is at most 255; for a greater n the screen gets no indexed color.
C38_IndexedInRange == IndexedColors(TRUE)

\* The part of C38 that holds: an index of at most 255 is selected.
C38_IndexedSelected == IndexedColors(FALSE)

\* C38 fails: CSI 38;5;300 m was dispatched and the screen got an indexed
\* color, 300 cut to 8 bits
C38_Witness ==
    /\ DispatchedSGR
    /\ sequence_.parameters = << <<38>>, <<5>>, <<300>> >>
    /\ screen_ = <<Call("setForegroundColor", <<"IndexedColor">>, <<44>>), VerifyState>>

\* C38 holds in the sub-parameter form: CSI 38:5:300 m was dispatched and
\* the screen got the undefined Color
C38_WitnessSubParameter ==
    /\ DispatchedSGR
    /\ sequence_.parameters = << <<38, 5, 300>> >>
    /\ screen_ = <<Call("setForegroundColor", <<"Undefined">>, <<>>), VerifyState>>

----------------------------------------------------------------------------
(* C39: the image render and one-shot hooks and a header that is not       *)
(* recognised                                                              *)

RenderParsers == {"GoodImageRender", "GoodImageOneshot"}

\* The step is the unhook of an image render or one-shot message
RenderUnhooked ==
    /\ hookedParser_.kind \in RenderParsers
    /\ lastCall' = <<"unhook", NUL>>

\* C39 as claimed: in the image render and one-shot hooks a message whose
\* alignment, resize or format header is not a recognised value is rejected
\* without a call on the screen.
C39_UnrecognizedRejected ==
    [][RenderUnhooked /\ NullOpt \in Dereferenced(State) => screen_' = <<>>]_vars

\* C39, the part that holds: a message whose alignment, resize and format
\* headers are recognised or absent makes one renderImage call, with no
\* indeterminate argument, and the process goes on.
C39_RecognizedRendered ==
    [][RenderUnhooked /\ NullOpt \notin Dereferenced(State)
        => /\ Len(screen_') = 1
           /\ screen_'[1].op = "renderImage"
           /\ \A k \in 1..Len(screen_'[1].s) : screen_'[1].s[k] # Indeterminate
           /\ producer' = Ground]_vars

\* C39: the failing case is reached: renderImage has been called with an
\* indeterminate policy or format
C39_Witness ==
    /\ lastCall = <<"unhook", NUL>>
    /\ Len(screen_) = 1
    /\ screen_[1].op = "renderImage"
    /\ \E k \in 1..3 : screen_[1].s[k] = Indeterminate

\* C39: the other outcome of the same case is reached: the process stopped
\* in the finalizer, with no call on the screen
C39_WitnessAborted ==
    /\ producer = Aborted
    /\ screen_ = <<>>
    /\ hookedParser_.kind \in RenderParsers

\* C39: a recognised message has been rendered
C39_WitnessRecognized ==
    /\ lastCall = <<"unhook", NUL>>
    /\ Len(screen_) = 1
    /\ screen_[1].op = "renderImage"
    /\ screen_[1].s[1] = "TopStart"
    /\ screen_[1].s[2] = "StretchToFill"

============================================================================
